---- MODULE Spec2Model ----
(***************************************************************************)
(* A model of CodeWiki-MCP: the persistent browser loop (browser.py), the  *)
(* chat search tool (tools/search.py), the keyword resolver (resolver.py)  *)
(* and the repository-identifier validation (types.py, tools/_helpers.py). *)
(*                                                                         *)
(* The module holds several specifications over one set of variables; each *)
(* specification moves the variables of one component and leaves the rest  *)
(* at their initial values.                                                *)
(*   SpecLoop   : caller threads, the event loop, the browser singleton    *)
(*   SpecCoro   : one caller, each coroutine with every outcome of a step  *)
(*   SpecSearch : the search tool's retry loop around one chat attempt     *)
(*   SpecWait   : _wait_for_response's three polling phases                *)
(*   SpecInput  : a tool call from its repo_url argument to validation     *)
(*   SpecResolve: keyword resolution, plain and interactive                *)
(*   SpecLimiter: the sliding-window rate limiter (rate_limit.py)          *)
(*   SpecCache  : the page cache (cache.py)                                *)
(*   SpecSearchCache : the search cache as the search tool uses it         *)
(*   SpecTool   : one call of a wiki-reading tool: limiter, fetch, verdict *)
(*   SpecParse  : the section parser's choice of strategy (parser.py)      *)
(*   SpecTruncate : the three truncations of a response text               *)
(*   SpecContents : read_wiki_contents' page of sections and its hint      *)
(*   SpecStars  : _parse_stars on star-count texts                         *)
(*   SpecCleanup: cleanup_browser called from the signal handler and main  *)
(*   SpecEnsure : _ensure_loop under concurrent callers                    *)
(*   SpecKeywordCache : the resolver's two keyword caches                  *)
(*   SpecBoundary : each tool handler from its arguments to its envelope   *)
(*   SpecChat   : one chat sequence on a page, from panel to response      *)
(*   SpecFlush  : invalidate and clear_cache over the three caches         *)
(*   SpecReuse  : _wait_for_response on the page of a reused session       *)
(*   SpecPaging : a caller paging through a document by the hints          *)
(***************************************************************************)
EXTENDS Integers, Sequences, FiniteSets, TLC

VARIABLES callers, ops, loopQueue, browser, pw, connected, nLaunched,
          maxRetries, tool, impl, sessions, wait, inp, rk, rl,
          cache, sc, tc, pg, tr, rc, st, cl, el, kc, tb, ch, fl,
          ru, pa

loopVars == <<callers, ops, loopQueue, browser, pw, connected, nLaunched>>

searchVars == <<maxRetries, tool, impl, sessions>>

waitVars == <<wait>>

inputVars == <<inp>>

resolverVars == <<rk>>

limiterVars == <<rl>>

cacheVars == <<cache>>

searchCacheVars == <<sc>>

toolCallVars == <<tc>>

parseVars == <<pg>>

truncateVars == <<tr>>

contentsVars == <<rc>>

starsVars == <<st>>

cleanupVars == <<cl>>

ensureVars == <<el>>

keywordCacheVars == <<kc>>

boundaryVars == <<tb>>

chatVars == <<ch>>

flushVars == <<fl>>

reuseVars == <<ru>>

pagingVars == <<pa>>

vars == <<loopVars, searchVars, waitVars, inputVars,
          resolverVars, limiterVars, cacheVars, searchCacheVars,
          toolCallVars, parseVars, truncateVars, contentsVars,
          starsVars, cleanupVars, ensureVars, keywordCacheVars,
          boundaryVars, chatVars, flushVars, reuseVars,
          pagingVars>>

\* Variables of the components other than the browser loop.
notLoopVars == <<searchVars, waitVars, inputVars, resolverVars,
          limiterVars, cacheVars, searchCacheVars, toolCallVars,
          parseVars, truncateVars, contentsVars, starsVars,
          cleanupVars, ensureVars, keywordCacheVars,
          boundaryVars, chatVars, flushVars, reuseVars,
          pagingVars>>

\* Variables of the components other than the search tool.
notSearchVars == <<loopVars, waitVars, inputVars, resolverVars,
          limiterVars, cacheVars, searchCacheVars, toolCallVars,
          parseVars, truncateVars, contentsVars, starsVars,
          cleanupVars, ensureVars, keywordCacheVars,
          boundaryVars, chatVars, flushVars, reuseVars,
          pagingVars>>

\* Variables of the components other than _wait_for_response.
notWaitVars == <<loopVars, searchVars, inputVars, resolverVars,
          limiterVars, cacheVars, searchCacheVars, toolCallVars,
          parseVars, truncateVars, contentsVars, starsVars,
          cleanupVars, ensureVars, keywordCacheVars,
          boundaryVars, chatVars, flushVars, reuseVars,
          pagingVars>>

\* Variables of the components other than input validation.
notInputVars == <<loopVars, searchVars, waitVars, resolverVars,
          limiterVars, cacheVars, searchCacheVars, toolCallVars,
          parseVars, truncateVars, contentsVars, starsVars,
          cleanupVars, ensureVars, keywordCacheVars,
          boundaryVars, chatVars, flushVars, reuseVars,
          pagingVars>>

\* Variables of the components other than the keyword resolver.
notResolverVars == <<loopVars, searchVars, waitVars, inputVars,
          limiterVars, cacheVars, searchCacheVars, toolCallVars,
          parseVars, truncateVars, contentsVars, starsVars,
          cleanupVars, ensureVars, keywordCacheVars,
          boundaryVars, chatVars, flushVars, reuseVars,
          pagingVars>>

\* Variables of the components other than the rate limiter.
notLimiterVars == <<loopVars, searchVars, waitVars, inputVars,
          resolverVars, cacheVars, searchCacheVars,
          toolCallVars, parseVars, truncateVars, contentsVars,
          starsVars, cleanupVars, ensureVars, keywordCacheVars,
          boundaryVars, chatVars, flushVars, reuseVars,
          pagingVars>>

\* Variables of the components other than the page cache.
notCacheVars == <<loopVars, searchVars, waitVars, inputVars,
          resolverVars, limiterVars, searchCacheVars,
          toolCallVars, parseVars, truncateVars, contentsVars,
          starsVars, cleanupVars, ensureVars, keywordCacheVars,
          boundaryVars, chatVars, flushVars, reuseVars,
          pagingVars>>

\* Variables of the components other than the search cache.
notSearchCacheVars == <<loopVars, searchVars, waitVars, inputVars,
          resolverVars, limiterVars, cacheVars, toolCallVars,
          parseVars, truncateVars, contentsVars, starsVars,
          cleanupVars, ensureVars, keywordCacheVars,
          boundaryVars, chatVars, flushVars, reuseVars,
          pagingVars>>

\* Variables of the components other than a document tool call.
notToolCallVars == <<loopVars, searchVars, waitVars, inputVars,
          resolverVars, limiterVars, cacheVars, searchCacheVars,
          parseVars, truncateVars, contentsVars, starsVars,
          cleanupVars, ensureVars, keywordCacheVars,
          boundaryVars, chatVars, flushVars, reuseVars,
          pagingVars>>

\* Variables of the components other than the section parser.
notParseVars == <<loopVars, searchVars, waitVars, inputVars,
          resolverVars, limiterVars, cacheVars, searchCacheVars,
          toolCallVars, truncateVars, contentsVars, starsVars,
          cleanupVars, ensureVars, keywordCacheVars,
          boundaryVars, chatVars, flushVars, reuseVars,
          pagingVars>>

\* Variables of the components other than truncation.
notTruncateVars == <<loopVars, searchVars, waitVars, inputVars,
          resolverVars, limiterVars, cacheVars, searchCacheVars,
          toolCallVars, parseVars, contentsVars, starsVars,
          cleanupVars, ensureVars, keywordCacheVars,
          boundaryVars, chatVars, flushVars, reuseVars,
          pagingVars>>

\* Variables of the components other than read_wiki_contents.
notContentsVars == <<loopVars, searchVars, waitVars, inputVars,
          resolverVars, limiterVars, cacheVars, searchCacheVars,
          toolCallVars, parseVars, truncateVars, starsVars,
          cleanupVars, ensureVars, keywordCacheVars,
          boundaryVars, chatVars, flushVars, reuseVars,
          pagingVars>>

\* Variables of the components other than the star-count parser.
notStarsVars == <<loopVars, searchVars, waitVars, inputVars,
          resolverVars, limiterVars, cacheVars, searchCacheVars,
          toolCallVars, parseVars, truncateVars, contentsVars,
          cleanupVars, ensureVars, keywordCacheVars,
          boundaryVars, chatVars, flushVars, reuseVars,
          pagingVars>>

\* Variables of the components other than shutdown cleanup.
notCleanupVars == <<loopVars, searchVars, waitVars, inputVars,
          resolverVars, limiterVars, cacheVars, searchCacheVars,
          toolCallVars, parseVars, truncateVars, contentsVars,
          starsVars, ensureVars, keywordCacheVars, boundaryVars,
          chatVars, flushVars, reuseVars, pagingVars>>

\* Variables of the components other than _ensure_loop.
notEnsureVars == <<loopVars, searchVars, waitVars, inputVars,
          resolverVars, limiterVars, cacheVars, searchCacheVars,
          toolCallVars, parseVars, truncateVars, contentsVars,
          starsVars, cleanupVars, keywordCacheVars,
          boundaryVars, chatVars, flushVars, reuseVars,
          pagingVars>>

\* Variables of the components other than the resolver's keyword caches.
notKeywordCacheVars == <<loopVars, searchVars, waitVars, inputVars,
          resolverVars, limiterVars, cacheVars, searchCacheVars,
          toolCallVars, parseVars, truncateVars, contentsVars,
          starsVars, cleanupVars, ensureVars, boundaryVars,
          chatVars, flushVars, reuseVars, pagingVars>>

\* Variables of the components other than the tool boundary.
notBoundaryVars == <<loopVars, searchVars, waitVars, inputVars,
          resolverVars, limiterVars, cacheVars, searchCacheVars,
          toolCallVars, parseVars, truncateVars, contentsVars,
          starsVars, cleanupVars, ensureVars, keywordCacheVars,
          chatVars, flushVars, reuseVars, pagingVars>>

\* Variables of the components other than the chat sequence.
notChatVars == <<loopVars, searchVars, waitVars, inputVars,
          resolverVars, limiterVars, cacheVars, searchCacheVars,
          toolCallVars, parseVars, truncateVars, contentsVars,
          starsVars, cleanupVars, ensureVars, keywordCacheVars,
          boundaryVars, flushVars, reuseVars, pagingVars>>

\* Variables of the components other than the three caches side by side.
notFlushVars == <<loopVars, searchVars, waitVars, inputVars,
          resolverVars, limiterVars, cacheVars, searchCacheVars,
          toolCallVars, parseVars, truncateVars, contentsVars,
          starsVars, cleanupVars, ensureVars, keywordCacheVars,
          boundaryVars, chatVars, reuseVars, pagingVars>>

\* Variables of the components other than the wait on a page with a thread.
notReuseVars == <<loopVars, searchVars, waitVars, inputVars,
          resolverVars, limiterVars, cacheVars, searchCacheVars,
          toolCallVars, parseVars, truncateVars, contentsVars,
          starsVars, cleanupVars, ensureVars, keywordCacheVars,
          boundaryVars, chatVars, flushVars, pagingVars>>

\* Variables of the components other than the paging through a document.
notPagingVars == <<loopVars, searchVars, waitVars, inputVars,
          resolverVars, limiterVars, cacheVars, searchCacheVars,
          toolCallVars, parseVars, truncateVars, contentsVars,
          starsVars, cleanupVars, ensureVars, keywordCacheVars,
          boundaryVars, chatVars, flushVars, reuseVars>>

(***************************************************************************)
(* Browser loop (browser.py).                                              *)
(***************************************************************************)

\* Number of caller threads (each makes one run_in_browser_loop call).
NThreads == 2

Threads == 1..NThreads

\* The coroutines submitted to the loop.
Kinds == {"render", "scrape", "fresh"}

Outcomes == {"ok", "fail"}

NoBrowser == 0

\* An operation before it is submitted.
NoOp == [kind |-> "none", pc |-> "none", ctx |-> FALSE, page |-> FALSE,
         exc |-> FALSE, res |-> "none"]

\* Greatest configured MAX_RETRIES explored (CODEWIKI_MAX_RETRIES is read from
\* the environment; 0 is a value the code accepts).
MaxRetriesCfg == 2

Attempts == 1..MaxRetriesCfg

\* Pooled sessions that can exist: one warm at the start and one per attempt.
SessionIds == 1..(MaxRetriesCfg + 1)

NoResult == [status |-> "none", code |-> "none", msg |-> 0, attempt |-> 0,
             max_attempts |-> 0]

\* A _search_impl coroutine that has not been submitted.
NoImpl == [pc |-> "idle", fresh |-> FALSE, entry |-> 0, broken |-> FALSE,
           failed |-> "none", released |-> 0, relBroken |-> FALSE,
           res |-> "none"]

ToolAtStart == [pc |-> "loop", attempt |-> 1, sleeps |-> 0, last |-> NoResult,
                codes |-> <<>>, result |-> NoResult]

SearchAtRest ==
    /\ maxRetries = MaxRetriesCfg
    /\ tool = ToolAtStart
    /\ impl = [a \in Attempts |-> NoImpl]
    /\ sessions = [s \in SessionIds |-> "free"]

\* config.NEW_CONTENT_THRESHOLD_CHARS
NEW_CONTENT_THRESHOLD_CHARS == 50

\* The stability loop of _wait_for_response: for _ in range(15).
StablePolls == 15

\* Response texts grow up to this many characters past the threshold.
MaxGrow == 2

TextLens == {0} \cup (NEW_CONTENT_THRESHOLD_CHARS .. NEW_CONTENT_THRESHOLD_CHARS + MaxGrow)

\* A text is its length and which of the texts of that length it is.
Texts == [len : TextLens, ver : {1, 2}]

EmptyText == [len |-> 0, ver |-> 1]

WaitStart == [pc |-> "p1", content |-> EmptyText, last_len |-> 0,
              prev_len |-> 0, polls |-> 0, expired |-> FALSE,
              seen |-> FALSE, ret |-> EmptyText]

WaitAtRest == wait = WaitStart

\* Strings are sequences of one-character strings.
NoCall == [pc |-> "none", tool |-> "none", input |-> <<>>, repo_url |-> <<>>,
           queryBlank |-> FALSE, io |-> 0, code |-> "none",
           normalized |-> <<>>]

InputAtRest == inp = NoCall

\* No keyword resolution under way.
NoResolve == [pc |-> "none", mode |-> "none", keyword |-> <<>>, ctx |-> FALSE,
              wiki |-> <<>>, results |-> <<>>, source |-> "none",
              consulted |-> 0, prompts |-> 0, answer |-> "none",
              via |-> "none",
              selected |-> <<>>]

ResolverAtRest == rk = NoResolve

\* The rate limiter with nothing recorded; -1 is no call.
NoPending == [key |-> "none", now |-> -1]

LimiterCallers == {"t1", "t2"}

LimiterKeys == {"repo-a", "repo-b"}

\* No rate_limit_remaining call was made yet.
NoRemaining == [key |-> "none", result |-> -1, inside |-> -1]

\* log holds the calls that went through the lock since the last
\* reset_rate_limits, remaining the rate_limit_remaining call that was made
\* last, when nothing else happened since.
NoLimiter == [now |-> 0, window |-> 1, max_calls |-> 1,
              windows |-> [k \in LimiterKeys |-> <<>>],
              pending |-> [t \in LimiterCallers |-> NoPending],
              log |-> <<>>, remaining |-> NoRemaining, resets |-> 0]

LimiterAtRest == rl = NoLimiter

\* The HTML page cache, empty.  The claims follow one key, WatchedUrl.
CacheKeys == {"url-a", "url-b", "url-c"}

WatchedUrl == "url-a"

NoSet == [value |-> "none", time |-> 0, others |-> {}]

NoGet == [key |-> "none", result |-> "none", value |-> "none", age |-> 0,
          others |-> 0]

NoCache == [now |-> 0, ttl |-> 1, maxsize |-> 1, strict |-> FALSE,
            links |-> <<>>, lastSet |-> NoSet, lastGet |-> NoGet]

CacheAtRest == cache = NoCache

\* The search cache, empty.  The claims follow one (repository, query) pair.
NoSuccess == [query |-> <<>>, answer |-> "none", time |-> 0, others |-> 0]

NoSearchCall == [query |-> <<>>, code |-> "none", answer |-> "none",
                 ops |-> 0, at |-> 0]

NoSearchCache == [now |-> 0, ttl |-> 1, maxsize |-> 1, strict |-> FALSE,
                  links |-> <<>>, lastSuccess |-> NoSuccess,
                  lastCall |-> NoSearchCall, otherGot |-> "none"]

SearchCacheAtRest == sc = NoSearchCache

\* No document tool call under way.
NoPage == [strategy |-> "none", sections |-> 0, toc |-> 0, raw_text |-> ""]

NoToolCall == [pc |-> "none", tool |-> "none", limited |-> FALSE,
               cached |-> FALSE, body |-> {}, page |-> NoPage,
               fetches |-> 0, chats |-> 0, code |-> "none"]

ToolCallAtRest == tc = NoToolCall

\* No document handed to the section parser.
NoParse == [pc |-> "none", doc |-> <<>>, sections |-> <<>>, ran |-> {}]

ParseAtRest == pg = NoParse

\* No text handed to a truncation.
NoTruncate == [pc |-> "none", fn |-> "none", data |-> <<>>, max_chars |-> 0,
               result |-> <<>>, truncated |-> FALSE]

TruncateAtRest == tr = NoTruncate

\* No read_wiki_contents call under way.
NoContents == [pc |-> "none", total |-> 0, offset |-> 0, limit |-> 1,
               max_chars |-> 0, data |-> <<>>, truncated |-> FALSE]

ContentsAtRest == rc = NoContents

\* No star text handed to _parse_stars.
NoStars == [pc |-> "none", text |-> <<>>, result |-> 0, raised |-> "none"]

StarsAtRest == st = NoStars

\* No shutdown under way.
NoCleanupTask == [pc |-> "none", closes |-> 0, swallowed |-> 0]

NoCleanup == [main |-> "none", signalled |-> FALSE, browser |-> "None",
              pw |-> "None", task |-> <<NoCleanupTask, NoCleanupTask>>,
              timedOut |-> <<FALSE, FALSE>>,
              after |-> <<"none", "none">>]

CleanupAtRest == cl = NoCleanup

\* No caller of _ensure_loop yet: _loop is None (0), _lock is free.
EnsureCallers == {"t1", "t2", "t3"}

NoEnsure == [loop |-> 0, closed |-> FALSE, created |-> 0, threads |-> 0,
             closes |-> 0, lock |-> "none",
             pc |-> [t \in EnsureCallers |-> "none"],
             calls |-> [t \in EnsureCallers |-> 0],
             got |-> [t \in EnsureCallers |-> 0]]

EnsureAtRest == el = NoEnsure

\* The two keyword caches of the resolver, empty, and nothing called yet.
ResolveSources == {"codewiki", "github"}

NoDone == [keyword |-> <<>>, value |-> "None", time |-> 0, others |-> 0]

NoKeywordCall == [source |-> "none", keyword |-> <<>>, result |-> "None",
                  ops |-> 0, requests |-> 0, value |-> "None", age |-> 0,
                  others |-> 0]

NoKeywordCache == [now |-> 0, ttl |-> 1, maxsize |-> 1, strict |-> FALSE,
                   studied |-> "codewiki",
                   links |-> [s \in ResolveSources |-> <<>>],
                   lastDone |-> [s \in ResolveSources |-> NoDone],
                   lastCall |-> NoKeywordCall]

KeywordCacheAtRest == kc = NoKeywordCache

\* No tool handler entered.
NoEnvelope == [status |-> "none", code |-> "none", raised |-> "none"]

NoBoundary == [pc |-> "none", tool |-> "none", aliased |-> FALSE,
               input |-> "none", repo |-> "none", attempt |-> 0,
               failed |-> {}, last_error |-> "none", envelope |-> NoEnvelope]

BoundaryAtRest == tb = NoBoundary

\* No chat sequence started on a page.
NoFirstVisible == [selector |-> 0, state |-> "none"]

NoChat == [pc |-> "none", sel |-> 0, panel |-> FALSE, input |-> 0,
           log |-> <<>>, enters |-> 0, clickCalls |-> 0, clicks |-> 0,
           clicked |-> 0, raised |-> FALSE, first |-> NoFirstVisible,
           res |-> "none"]

ChatAtRest == ch = NoChat

\* The three caches of cache.py side by side, all empty.
FlushUrls == {"url-a", "url-b"}

FlushRepos == {"repo-a"}

FlushSearchKeys == {"repo-a::q"}

NoEntry == [value |-> "none", expires |-> 0]

NoInvalidate == [url |-> "none", page |-> <<>>, parsed |-> <<>>,
                 search |-> <<>>]

NoFlushGet == [cache |-> "none", key |-> "none", result |-> "none"]

NoFlush == [now |-> 0,
            page |-> [u \in FlushUrls |-> NoEntry],
            parsed |-> [r \in FlushRepos |-> NoEntry],
            search |-> [k \in FlushSearchKeys |-> NoEntry],
            invalidated |-> NoInvalidate, cleared |-> FALSE,
            lastGet |-> NoFlushGet]

FlushAtRest == fl = NoFlush

\* No wait for a response on a page with a thread.
NoThreadText == [of |-> "none", len |-> 0]

NoReuse == [pc |-> "none", reused |-> FALSE, rendered |-> FALSE,
            new_len |-> 0, content |-> NoThreadText, last_len |-> 0,
            polls |-> 0, expired |-> FALSE, ret |-> NoThreadText]

ReuseAtRest == ru = NoReuse

\* No paging through a document under way.
NoPaging == [pc |-> "none", total |-> 0, limit |-> 1, max_chars |-> 0,
             offset |-> 0, visited |-> <<>>, calls |-> 0,
             truncated |-> FALSE]

PagingAtRest == pa = NoPaging

LoopAtRest ==
    /\ callers = [t \in Threads |-> "idle"]
    /\ ops = [t \in Threads |-> NoOp]
    /\ loopQueue = <<>>
    /\ browser = NoBrowser
    /\ pw = 0
    /\ connected = {}
    /\ nLaunched = 0

InitLoop == LoopAtRest /\ PagingAtRest /\ ReuseAtRest /\ FlushAtRest /\ ChatAtRest /\ BoundaryAtRest /\ KeywordCacheAtRest /\ EnsureAtRest /\ CleanupAtRest /\ StarsAtRest /\ ContentsAtRest /\ TruncateAtRest /\ ParseAtRest /\ ToolCallAtRest /\ SearchCacheAtRest /\ CacheAtRest /\ LimiterAtRest /\ ResolverAtRest /\ SearchAtRest /\ WaitAtRest /\ InputAtRest

\* asyncio.run_coroutine_threadsafe schedules the coroutine with
\* call_soon_threadsafe: the loop starts the tasks in the order they were enqueued.
NextToRunLifo(q) == q[Len(q)]

NextToRun(q) == Head(q)

\* concurrent.futures.Future.result returns once the task has set its result.
FutureDoneEarly(o) == o.pc \in {"page_close", "ctx_close", "done"}

FutureDone(o) == o.pc = "done"

\* The coroutine ends: its result (or exception) is set on the future.
Finish(o, res) == [o EXCEPT !.pc = "done", !.res = res]

\* The steps the three coroutines share: context and page creation before the
\* try block, and the finally block (page.close, then context.close).
CommonStep(o, out) ==
    CASE o.pc = "new_context" ->
            IF out = "ok" THEN [o EXCEPT !.ctx = TRUE, !.pc = "new_page"]
            ELSE Finish(o, "raised")
      [] o.pc = "new_page" ->
            IF out = "ok" THEN [o EXCEPT !.page = TRUE, !.pc = "goto"]
            ELSE Finish(o, "raised")
      [] o.pc = "page_close" ->
            IF out = "ok" THEN [o EXCEPT !.page = FALSE, !.pc = "ctx_close"]
            ELSE Finish(o, "raised")
      [] o.pc = "ctx_close" ->
            Finish([o EXCEPT !.ctx = FALSE],
                   IF o.exc \/ out = "fail" THEN "raised" ELSE "ok")
      [] OTHER -> o

IsCommon(o) == o.pc \in {"new_context", "new_page", "page_close", "ctx_close"}

\* _render_page_async: goto, wait_for_selector (or the fallback sleep), the settle
\* sleep, page.content(); an exception leaves through the finally block.
render_page_async(o, out) ==
    CASE IsCommon(o) -> CommonStep(o, out)
      [] o.pc = "goto" ->
            IF out = "ok" THEN [o EXCEPT !.pc = "wait"]
            ELSE [o EXCEPT !.exc = TRUE, !.pc = "page_close"]
      [] o.pc = "wait" -> [o EXCEPT !.pc = "content"]
      [] o.pc = "content" ->
            IF out = "ok" THEN [o EXCEPT !.pc = "page_close"]
            ELSE [o EXCEPT !.exc = TRUE, !.pc = "page_close"]
      [] OTHER -> o

\* _scrape_search_results: every exception inside the try block is caught and
\* turned into an empty result list.
scrape_search_results(o, out) ==
    CASE IsCommon(o) -> CommonStep(o, out)
      [] o.pc = "goto" ->
            [o EXCEPT !.pc = IF out = "ok" THEN "wait" ELSE "page_close"]
      [] o.pc = "wait" ->
            [o EXCEPT !.pc = IF out = "ok" THEN "content" ELSE "page_close"]
      [] o.pc = "content" -> [o EXCEPT !.pc = "page_close"]
      [] OTHER -> o

\* _search_fresh_context: every exception inside the try block is caught and
\* turned into a DRIVER_ERROR envelope; the chat sequence is one step here.
search_fresh_context(o, out) ==
    CASE IsCommon(o) -> CommonStep(o, out)
      [] o.pc = "goto" ->
            [o EXCEPT !.pc = IF out = "ok" THEN "wait" ELSE "page_close"]
      [] o.pc = "wait" -> [o EXCEPT !.pc = "content"]
      [] o.pc = "content" -> [o EXCEPT !.pc = "page_close"]
      [] OTHER -> o

CoroStep(o, out) ==
    CASE o.kind = "render" -> render_page_async(o, out)
      [] o.kind = "scrape" -> scrape_search_results(o, out)
      [] o.kind = "fresh" -> search_fresh_context(o, out)
      [] OTHER -> o

\* run_in_browser_loop, first half: enqueue the coroutine on the loop.
run_in_browser_loop(t, k) ==
    /\ callers[t] = "idle"
    /\ callers' = [callers EXCEPT ![t] = "waiting"]
    /\ ops' = [ops EXCEPT ![t] = [NoOp EXCEPT !.kind = k, !.pc = "queued"]]
    /\ loopQueue' = Append(loopQueue, t)
    /\ UNCHANGED <<browser, pw, connected, nLaunched>>
    /\ UNCHANGED notLoopVars

\* The loop runs the first step of the next enqueued task, up to its first
\* suspension: _get_browser's test of the singleton.
LoopStart ==
    /\ loopQueue # <<>>
    /\ LET t == NextToRun(loopQueue) IN
        /\ loopQueue' = SelectSeq(loopQueue, LAMBDA x : x # t)
        /\ ops' = [ops EXCEPT ![t] =
              IF browser = NoBrowser \/ browser \notin connected
              THEN [@ EXCEPT !.pc = "gb_start"]
              ELSE [@ EXCEPT !.pc = "new_context"]]
    /\ UNCHANGED <<callers, browser, pw, connected, nLaunched>>
    /\ UNCHANGED notLoopVars

\* _get_browser resumes after async_playwright().start().
GetBrowserStarted(t, out) ==
    /\ ops[t].pc = "gb_start"
    /\ IF out = "ok"
       THEN /\ pw' = 1
            /\ ops' = [ops EXCEPT ![t].pc = "gb_launch"]
       ELSE /\ pw' = pw
            /\ ops' = [ops EXCEPT ![t] = Finish(@, "raised")]
    /\ UNCHANGED <<callers, loopQueue, browser,
                   connected, nLaunched>>
    /\ UNCHANGED notLoopVars

\* _get_browser resumes after chromium.launch(): the new handle replaces _browser.
GetBrowserLaunched(t, out) ==
    /\ ops[t].pc = "gb_launch"
    /\ IF out = "ok"
       THEN /\ nLaunched' = nLaunched + 1
            /\ browser' = nLaunched + 1
            /\ connected' = connected \cup {nLaunched + 1}
            /\ ops' = [ops EXCEPT ![t].pc = "new_context"]
       ELSE /\ UNCHANGED <<nLaunched, browser, connected>>
            /\ ops' = [ops EXCEPT ![t] = Finish(@, "raised")]
    /\ UNCHANGED <<callers, loopQueue, pw>>
    /\ UNCHANGED notLoopVars

\* The loop resumes a suspended task with the outcome of the awaited call and
\* runs it to its next suspension.
LoopResume(t, out) ==
    /\ ops[t].pc \notin {"none", "queued", "gb_start", "gb_launch", "done"}
    /\ ops' = [ops EXCEPT ![t] = CoroStep(@, out)]
    /\ UNCHANGED <<callers, loopQueue, browser, pw,
                   connected, nLaunched>>
    /\ UNCHANGED notLoopVars

\* run_in_browser_loop, second half: future.result returns the task's result.
ResultReturned(t) ==
    /\ callers[t] = "waiting"
    /\ FutureDone(ops[t])
    /\ callers' = [callers EXCEPT ![t] = "returned"]
    /\ UNCHANGED <<ops, loopQueue, browser, pw,
                   connected, nLaunched>>
    /\ UNCHANGED notLoopVars

\* run_in_browser_loop, second half: HARD_TIMEOUT_SECONDS elapse first and
\* future.result raises; the future is not cancelled.
ResultTimeout(t) ==
    /\ callers[t] = "waiting"
    /\ ~FutureDone(ops[t])
    /\ callers' = [callers EXCEPT ![t] = "timedout"]
    /\ UNCHANGED <<ops, loopQueue, browser, pw,
                   connected, nLaunched>>
    /\ UNCHANGED notLoopVars

\* The browser process dies or its connection drops (is_connected() turns false).
Disconnect(b) ==
    /\ b \in connected
    /\ connected' = connected \ {b}
    /\ UNCHANGED <<callers, ops, loopQueue, browser,
                   pw, nLaunched>>
    /\ UNCHANGED notLoopVars

\* In the concurrent specification thread t submits the coroutine ThreadKind(t):
\* the coroutines share state only through _get_browser, which all three call
\* first, so the interleavings of one kind per thread cover the singleton.
ThreadKind(t) ==
    CASE t % 3 = 1 -> "render"
      [] t % 3 = 2 -> "scrape"
      [] OTHER -> "fresh"

NextLoop ==
    \/ \E t \in Threads : run_in_browser_loop(t, ThreadKind(t))
    \/ LoopStart
    \/ \E t \in Threads, out \in Outcomes : GetBrowserStarted(t, out)
    \/ \E t \in Threads, out \in Outcomes : GetBrowserLaunched(t, out)
    \/ \E t \in Threads, out \in Outcomes : LoopResume(t, out)
    \/ \E t \in Threads : ResultReturned(t)
    \/ \E t \in Threads : ResultTimeout(t)
    \/ \E b \in 1..NThreads : Disconnect(b)

SpecLoop == InitLoop /\ [][NextLoop]_vars

\* One caller at a time, every kind of coroutine, every outcome of every step.
NextCoro ==
    \/ \E k \in Kinds : run_in_browser_loop(1, k)
    \/ LoopStart
    \/ \E out \in Outcomes : GetBrowserStarted(1, out)
    \/ \E out \in Outcomes : GetBrowserLaunched(1, out)
    \/ \E out \in Outcomes : LoopResume(1, out)
    \/ ResultReturned(1)
    \/ ResultTimeout(1)
    \/ Disconnect(1)

SpecCoro == InitLoop /\ [][NextCoro]_vars

(***************************************************************************)
(* The search tool (tools/search.py): codewiki_search_wiki's retry loop,   *)
(* _run_search and _search_impl.  The session pool (session_pool.py) is    *)
(* not part of the sources at hand; it is modelled from its description.   *)
(***************************************************************************)

PhaseOutcomes == {"ok", "notfound", "throw", "empty"}

\* What an awaited step can yield: _ensure_chat_open and _find_chat_input catch
\* every exception and report "not found"; _wait_for_response catches every
\* exception and may return ""; the other steps return or raise.
Applicable(pc, out) ==
    CASE pc \in {"panel", "input"} -> out \in {"ok", "notfound"}
      [] pc = "response" -> out \in {"ok", "empty"}
      [] OTHER -> out \in {"ok", "throw"}

\* Session pool: an idle session of the target URL is reused, else one is made.
IdleSessions == {s \in SessionIds : sessions[s] = "idle"}

FreeSessions == {s \in SessionIds : sessions[s] = "free"}

Least(S) == CHOOSE x \in S : \A y \in S : x <= y

get_or_create == IF IdleSessions # {} THEN Least(IdleSessions) ELSE Least(FreeSessions)

\* Session pool: a broken session is evicted, any other goes back to the pool.
release(s, broken) ==
    [sessions EXCEPT ![s] = IF broken THEN "evicted" ELSE "idle"]

\* _search_impl sets broken = True before it returns INPUT_NOT_FOUND.
NotFoundKeepsSession == FALSE

NotFoundMarksBroken == TRUE

\* _search_impl, lines 226-299: the chat sequence on the pooled session's page.
search_impl(o, out) ==
    CASE o.pc \in {"panel", "input"} ->
            IF out = "ok"
            THEN [o EXCEPT !.pc = IF o.pc = "panel" THEN "input" ELSE "type"]
            ELSE [o EXCEPT !.broken = NotFoundMarksBroken, !.failed = "notfound",
                           !.res = "INPUT_NOT_FOUND", !.pc = "release"]
      [] o.pc \in {"type", "submit"} ->
            IF out = "ok"
            THEN [o EXCEPT !.pc = IF o.pc = "type" THEN "submit" ELSE "response"]
            ELSE [o EXCEPT !.broken = TRUE, !.failed = "threw",
                           !.res = "DRIVER_ERROR", !.pc = "release"]
      [] o.pc = "response" ->
            [o EXCEPT !.res = IF out = "ok" THEN "ok" ELSE "NO_CONTENT",
                      !.pc = "release"]
      [] OTHER -> o

\* _search_fresh_context: context and page are made before the try block; inside
\* it the same chat sequence runs, and the finally block closes page and context.
fresh_context_step(o, out) ==
    CASE o.pc = "f_open" ->
            IF out = "ok" THEN [o EXCEPT !.pc = "f_goto"]
            ELSE [o EXCEPT !.res = "raised", !.pc = "done"]
      [] o.pc = "f_goto" ->
            IF out = "ok" THEN [o EXCEPT !.pc = "panel"]
            ELSE [o EXCEPT !.failed = "threw", !.res = "DRIVER_ERROR",
                           !.pc = "f_close"]
      [] o.pc \in {"panel", "input"} ->
            IF out = "ok"
            THEN [o EXCEPT !.pc = IF o.pc = "panel" THEN "input" ELSE "type"]
            ELSE [o EXCEPT !.failed = "notfound", !.res = "INPUT_NOT_FOUND",
                           !.pc = "f_close"]
      [] o.pc \in {"type", "submit"} ->
            IF out = "ok"
            THEN [o EXCEPT !.pc = IF o.pc = "type" THEN "submit" ELSE "response"]
            ELSE [o EXCEPT !.failed = "threw", !.res = "DRIVER_ERROR",
                           !.pc = "f_close"]
      [] o.pc = "response" ->
            [o EXCEPT !.res = IF out = "ok" THEN "ok" ELSE "NO_CONTENT",
                      !.pc = "f_close"]
      [] o.pc = "f_close" ->
            IF out = "ok" THEN [o EXCEPT !.pc = "done"]
            ELSE [o EXCEPT !.res = "raised", !.pc = "done"]
      [] OTHER -> o

\* _run_search: an exception out of the coroutine becomes an INTERNAL envelope.
run_search_code(res) == IF res = "raised" THEN "INTERNAL" ELSE res

\* codewiki_search_wiki sleeps RETRY_DELAY_SECONDS only if attempts remain.
ShouldSleepAlways(a) == TRUE

ShouldSleep(a) == a < maxRetries

\* codewiki_search_wiki, loop head: the next attempt submits _search_impl.
BeginAttempt ==
    /\ tool.pc = "loop"
    /\ tool.attempt <= maxRetries
    /\ impl' = [impl EXCEPT ![tool.attempt].pc = "acquire"]
    /\ tool' = [tool EXCEPT !.pc = "waiting"]
    /\ UNCHANGED <<maxRetries, sessions>>
    /\ UNCHANGED notSearchVars

\* codewiki_search_wiki, lines 490-505: the attempt's envelope is returned when
\* ok, else kept as last_error, followed by the delay when attempts remain.
AttemptEnds(a, code) ==
    IF code = "ok"
    THEN tool' = [tool EXCEPT !.pc = "done", !.codes = Append(@, code),
                     !.result = [status |-> "ok", code |-> "none", msg |-> a,
                                 attempt |-> a, max_attempts |-> maxRetries]]
    ELSE tool' = [tool EXCEPT !.pc = "loop", !.codes = Append(@, code),
                     !.last = [status |-> "error", code |-> code, msg |-> a,
                               attempt |-> a, max_attempts |-> maxRetries],
                     !.sleeps = IF ShouldSleep(a) THEN @ + 1 ELSE @,
                     !.attempt = a + 1]

\* _run_search returns the envelope of the finished coroutine.
RunSearchReturns ==
    /\ tool.pc = "waiting"
    /\ impl[tool.attempt].pc = "done"
    /\ AttemptEnds(tool.attempt, run_search_code(impl[tool.attempt].res))
    /\ UNCHANGED <<maxRetries, impl, sessions>>
    /\ UNCHANGED notSearchVars

\* _run_search: the hard timeout elapses and a TIMEOUT envelope is returned;
\* the coroutine stays on the loop.
RunSearchTimeout ==
    /\ tool.pc = "waiting"
    /\ impl[tool.attempt].pc # "done"
    /\ AttemptEnds(tool.attempt, "TIMEOUT")
    /\ UNCHANGED <<maxRetries, impl, sessions>>
    /\ UNCHANGED notSearchVars

\* codewiki_search_wiki, lines 507-514: after the loop the last error is
\* re-tagged; with no attempt made an INTERNAL envelope is returned.
RetriesExhausted ==
    /\ tool.pc = "loop"
    /\ tool.attempt > maxRetries
    /\ tool' = [tool EXCEPT !.pc = "done",
                  !.result = IF tool.last.status # "none"
                             THEN [tool.last EXCEPT !.code = "RETRY_EXHAUSTED"]
                             ELSE [status |-> "error", code |-> "INTERNAL",
                                   msg |-> 0, attempt |-> 1, max_attempts |-> 1]]
    /\ UNCHANGED <<maxRetries, impl, sessions>>
    /\ UNCHANGED notSearchVars

\* _search_impl, lines 218-224: acquire a pooled session, or fall back to a
\* one-off context when the pool raises.
PoolAcquire(a, out) ==
    /\ impl[a].pc = "acquire"
    /\ Applicable("acquire", out)
    /\ IF out = "ok"
       THEN /\ sessions' = [sessions EXCEPT ![get_or_create] = "inuse"]
            /\ impl' = [impl EXCEPT ![a].entry = get_or_create, ![a].pc = "panel"]
       ELSE /\ sessions' = sessions
            /\ impl' = [impl EXCEPT ![a].fresh = TRUE, ![a].pc = "f_open"]
    /\ UNCHANGED <<maxRetries, tool>>
    /\ UNCHANGED notSearchVars

\* The loop resumes the coroutine of attempt a with the outcome of its step.
ChatStep(a, out) ==
    /\ impl[a].pc \in {"panel", "input", "type", "submit", "response",
                       "f_open", "f_goto", "f_close"}
    /\ Applicable(impl[a].pc, out)
    /\ impl' = [impl EXCEPT ![a] = IF @.fresh THEN fresh_context_step(@, out)
                                             ELSE search_impl(@, out)]
    /\ UNCHANGED <<maxRetries, tool, sessions>>
    /\ UNCHANGED notSearchVars

\* _search_impl, lines 300-301: the finally block releases the session.
PoolRelease(a) ==
    /\ impl[a].pc = "release"
    /\ sessions' = release(impl[a].entry, impl[a].broken)
    /\ impl' = [impl EXCEPT ![a].released = @ + 1,
                            ![a].relBroken = impl[a].broken,
                            ![a].pc = "done"]
    /\ UNCHANGED <<maxRetries, tool>>
    /\ UNCHANGED notSearchVars

InitSearch ==
    /\ LoopAtRest
    /\ PagingAtRest
    /\ ReuseAtRest
    /\ FlushAtRest
    /\ ChatAtRest
    /\ BoundaryAtRest
    /\ KeywordCacheAtRest
    /\ EnsureAtRest
    /\ CleanupAtRest
    /\ StarsAtRest
    /\ ContentsAtRest
    /\ TruncateAtRest
    /\ ParseAtRest
    /\ ToolCallAtRest
    /\ SearchCacheAtRest
    /\ CacheAtRest
    /\ LimiterAtRest
    /\ ResolverAtRest
    /\ WaitAtRest
    /\ InputAtRest
    /\ maxRetries \in 0..MaxRetriesCfg
    /\ tool = ToolAtStart
    /\ impl = [a \in Attempts |-> NoImpl]
    /\ sessions \in {[s \in SessionIds |-> "free"],
                     [s \in SessionIds |-> IF s = 1 THEN "idle" ELSE "free"]}

NextSearch ==
    \/ BeginAttempt
    \/ RunSearchReturns
    \/ RunSearchTimeout
    \/ RetriesExhausted
    \/ \E a \in Attempts, out \in PhaseOutcomes : PoolAcquire(a, out)
    \/ \E a \in Attempts, out \in PhaseOutcomes : ChatStep(a, out)
    \/ \E a \in Attempts : PoolRelease(a)

SpecSearch == InitSearch /\ [][NextSearch]_vars

(***************************************************************************)
(* _wait_for_response (tools/search.py).                                   *)
(***************************************************************************)

\* What one pass over RESPONSE_ELEMENT_SELECTORS yields: the text of the first
\* visible element, or nothing when none is visible or every probe raises.
NoRead == [len |-> 0, ver |-> 0]

Reads == Texts \cup {NoRead}

\* Phase 3's test that streaming has stopped: the length did not change.
StableWrong(c, lastLen) == c.len < lastLen

Stable(c, lastLen) == c.len = lastLen

\* RESPONSE_WAIT_TIMEOUT_SECONDS elapse (the deadline of phases 1 and 2).
DeadlinePasses ==
    /\ wait.pc \in {"p1", "p2"}
    /\ ~wait.expired
    /\ wait' = [wait EXCEPT !.expired = TRUE]
    /\ UNCHANGED notWaitVars

\* Phase 1: poll until the empty-state placeholder is gone (or the probe raises).
Phase1Poll(gone) ==
    /\ wait.pc = "p1"
    /\ wait' = IF wait.expired \/ gone THEN [wait EXCEPT !.pc = "p2"] ELSE wait
    /\ UNCHANGED notWaitVars

\* if len(text) > config.NEW_CONTENT_THRESHOLD_CHARS, had any text counted
IsAnyContent(r) == r # NoRead /\ r.len > 0

\* if len(text) > config.NEW_CONTENT_THRESHOLD_CHARS
IsNewContent(r) == r # NoRead /\ r.len > NEW_CONTENT_THRESHOLD_CHARS

\* if not response_text: NO_CONTENT, in _search_impl and
\* _search_fresh_context
ResponseCode(response_text) ==
    IF response_text.len = 0 THEN "NO_CONTENT" ELSE "ok"

\* Phase 2: poll for a text longer than the threshold; "" when the deadline
\* passes first.  (seen: a visible text longer than the threshold was read.)
Phase2Poll(r) ==
    /\ wait.pc = "p2"
    /\ IF wait.expired
       THEN wait' = [wait EXCEPT !.pc = "ret", !.ret = EmptyText]
       ELSE LET seen == wait.seen \/ (/\ r # NoRead
                                      /\ r.len > NEW_CONTENT_THRESHOLD_CHARS)
            IN  IF IsNewContent(r)
                THEN wait' = [wait EXCEPT !.pc = "p3", !.content = r,
                                          !.last_len = r.len,
                                          !.prev_len = r.len, !.seen = seen]
                ELSE wait' = [wait EXCEPT !.seen = seen]
    /\ UNCHANGED notWaitVars

\* Phase 3, one iteration: re-read the text, stop when its length is unchanged.
Phase3Poll(r) ==
    /\ wait.pc = "p3"
    /\ wait.polls < StablePolls
    /\ LET c == IF r = NoRead THEN wait.content ELSE r IN
         wait' = [wait EXCEPT !.content = c,
                              !.polls = @ + 1,
                              !.prev_len = wait.last_len,
                              !.last_len = c.len,
                              !.pc = IF Stable(c, wait.last_len) THEN "ret" ELSE "p3",
                              !.ret = IF Stable(c, wait.last_len) THEN c ELSE @]
    /\ UNCHANGED notWaitVars

\* Phase 3: the loop has run all its iterations; the last text read is returned.
Phase3End ==
    /\ wait.pc = "p3"
    /\ wait.polls = StablePolls
    /\ wait' = [wait EXCEPT !.pc = "ret", !.ret = wait.content]
    /\ UNCHANGED notWaitVars

InitWait == LoopAtRest /\ PagingAtRest /\ ReuseAtRest /\ FlushAtRest /\ ChatAtRest /\ BoundaryAtRest /\ KeywordCacheAtRest /\ EnsureAtRest /\ CleanupAtRest /\ StarsAtRest /\ ContentsAtRest /\ TruncateAtRest /\ ParseAtRest /\ ToolCallAtRest /\ SearchCacheAtRest /\ CacheAtRest /\ LimiterAtRest /\ ResolverAtRest /\ SearchAtRest /\ WaitAtRest /\ InputAtRest

NextWait ==
    \/ DeadlinePasses
    \/ \E gone \in BOOLEAN : Phase1Poll(gone)
    \/ \E r \in Reads : Phase2Poll(r)
    \/ \E r \in Reads : Phase3Poll(r)
    \/ Phase3End

SpecWait == InitWait /\ [][NextWait]_vars

(***************************************************************************)
(* Repository identifiers (types.py, resolver.py, tools/_helpers.py) and   *)
(* the start of a tool call up to validation.                              *)
(***************************************************************************)

\* Longest input, counted in the pieces of InputPieces.
MaxPieces == 3

Letters == {"a", "b", "c", "g", "h", "i", "l", "m", "o", "p", "s", "t", "u"}

Http == <<"h", "t", "t", "p">>

GithubHost == <<":", "/", "/", "g", "i", "t", "h", "u", "b", ".", "c", "o",
                "m", "/">>

GitlabHost == <<":", "/", "/", "g", "i", "t", "l", "a", "b", ".", "c", "o",
                "m", "/">>

BitbucketHost == <<":", "/", "/", "b", "i", "t", "b", "u", "c", "k", "e", "t",
                   ".", "o", "r", "g", "/">>

HttpsGithub == Http \o <<"s">> \o GithubHost

HttpGithub == Http \o GithubHost

HttpsGitlab == Http \o <<"s">> \o GitlabHost

\* What a keyword search resolves to, and a shorthand to build inputs from.
ResolvedRepo == <<"a", "/", "a">>

\* The pieces inputs are put together from.
InputPieces == {HttpsGithub, HttpGithub, HttpsGitlab, Http, ResolvedRepo,
                <<"a">>, <<"/">>, <<" ">>, <<"@">>}

RECURSIVE Flatten(_)
Flatten(ps) == IF ps = <<>> THEN <<>> ELSE Head(ps) \o Flatten(Tail(ps))

Inputs ==
    {Flatten(ps) : ps \in UNION {[1..n -> InputPieces] : n \in 0..MaxPieces}}

\* \w of Python's re on the characters used here (":" "/" "." " " "@" are not).
IsWord(c) == c \in Letters \cup {"e", "k", "r", "_"}

\* The class [\w.\-]
IsNameChar(c) == IsWord(c) \/ c \in {".", "-"}

IsSpace(c) == c = " "

\* str.strip()
RECURSIVE LStrip(_)
LStrip(v) == IF v # <<>> /\ IsSpace(Head(v)) THEN LStrip(Tail(v)) ELSE v

RECURSIVE RStrip(_)
RStrip(v) ==
    IF v # <<>> /\ IsSpace(v[Len(v)]) THEN RStrip(SubSeq(v, 1, Len(v) - 1))
    ELSE v

Strip(v) == RStrip(LStrip(v))

StartsWith(v, p) == Len(v) >= Len(p) /\ SubSeq(v, 1, Len(p)) = p

AllNameChars(v, i, j) == \A k \in i..j : IsNameChar(v[k])

SlashAt(v) == {i \in 1..Len(v) : v[i] = "/"}

\* OWNER_REPO_PATTERN  ^[\w.\-]+/[\w.\-]+$
MatchOwnerRepo(v) ==
    \E k \in SlashAt(v) :
        /\ 1 < k /\ k < Len(v)
        /\ AllNameChars(v, 1, k - 1)
        /\ AllNameChars(v, k + 1, Len(v))

\* [\w.\-]+/[\w.\-]+(/.*)?$  on the part of a URL after the host's slash:
\* the repo name ends at the end of the string or just before a slash.
MatchOwnerRepoPath(r) ==
    \E k \in SlashAt(r), e \in SlashAt(r) \cup {Len(r) + 1} :
        /\ 1 < k /\ k + 1 < e
        /\ AllNameChars(r, 1, k - 1)
        /\ AllNameChars(r, k + 1, e - 1)

UrlPrefixes ==
    {Http \o sch \o host : sch \in {<<>>, <<"s">>},
                           host \in {GithubHost, GitlabHost, BitbucketHost}}

\* REPO_URL_PATTERN
\*   ^https?://(github\.com|gitlab\.com|bitbucket\.org)/[\w.\-]+/[\w.\-]+(/.*)?$
MatchRepoUrl(v) ==
    \E p \in UrlPrefixes :
        /\ StartsWith(v, p)
        /\ MatchOwnerRepoPath(SubSeq(v, Len(p) + 1, Len(v)))

\* KEYWORD_PATTERN  ^[\w][\w.\-]*$
MatchKeyword(v) == v # <<>> /\ IsWord(v[1]) /\ AllNameChars(v, 2, Len(v))

\* resolver.is_bare_keyword
is_bare_keyword(value) ==
    LET v == Strip(value) IN
    IF v = <<>> \/ SlashAt(v) # {} \/ StartsWith(v, Http) THEN FALSE
    ELSE MatchKeyword(v)

\* RepoInput.normalize_repo_url: the validated value, or a ValueError
normalize_repo_url(value) ==
    LET v == Strip(value) IN
    IF v = <<>> THEN [ok |-> FALSE, url |-> <<>>]
    ELSE IF MatchOwnerRepo(v) THEN [ok |-> TRUE, url |-> HttpsGithub \o v]
    ELSE IF ~MatchRepoUrl(v) THEN [ok |-> FALSE, url |-> <<>>]
    ELSE [ok |-> TRUE, url |-> v]

\* Tools that call pre_resolve_keyword before validating, and tools that
\* validate the argument as given.
ResolvingTools == {"list_topics", "search_wiki"}

DirectTools == {"read_structure", "request_indexing"}

\* A tool called with repo_url (and, for search, a query).
ToolCall(k, v, blank) ==
    [NoCall EXCEPT !.pc = IF k \in ResolvingTools THEN "resolve" ELSE "validate",
                   !.tool = k, !.input = v, !.repo_url = v,
                   !.queryBlank = blank]

ToolCalls ==
    {ToolCall(k, v, FALSE) : k \in ResolvingTools \cup DirectTools, v \in Inputs}
    \cup {ToolCall("search_wiki", v, TRUE) : v \in Inputs}

\* pre_resolve_keyword on anything but a bare keyword: passed on untouched.
PreResolveSkips ==
    /\ inp.pc = "resolve"
    /\ ~is_bare_keyword(inp.input)
    /\ inp' = [inp EXCEPT !.pc = "validate"]
    /\ UNCHANGED notInputVars

\* pre_resolve_keyword on a bare keyword: resolve_keyword_interactive looks
\* the keyword up on the wiki's search page (a browser operation, unless the
\* keyword's results are cached) and, with no result there, through the
\* GitHub API (a network request, unless cached).
pre_resolve_keyword(found, wikiCached, githubCached) ==
    /\ inp.pc = "resolve"
    /\ is_bare_keyword(inp.input)
    /\ inp' = [inp EXCEPT
                 !.pc = "validate",
                 !.io = @ + (IF wikiCached THEN 0 ELSE 1)
                          + (IF found = "wiki" \/ githubCached THEN 0 ELSE 1),
                 !.repo_url = IF found = "nothing" THEN @ ELSE ResolvedRepo]
    /\ UNCHANGED notInputVars

\* validate_topics_input / validate_search_input: a rejected value becomes a
\* VALIDATION envelope.
ValidateInput ==
    /\ inp.pc = "validate"
    /\ LET n == normalize_repo_url(inp.repo_url) IN
         IF n.ok /\ ~inp.queryBlank
         THEN inp' = [inp EXCEPT !.pc = "valid", !.normalized = n.url]
         ELSE inp' = [inp EXCEPT !.pc = "done", !.code = "VALIDATION"]
    /\ UNCHANGED notInputVars

\* The rest of the tool: rate limit, cache, page fetch or chat.
ToolProceeds(usesIo) ==
    /\ inp.pc = "valid"
    /\ inp' = [inp EXCEPT !.pc = "done", !.code = "other",
                          !.io = IF usesIo THEN @ + 1 ELSE @]
    /\ UNCHANGED notInputVars

InitInput == LoopAtRest /\ PagingAtRest /\ ReuseAtRest /\ FlushAtRest /\ ChatAtRest /\ BoundaryAtRest /\ KeywordCacheAtRest /\ EnsureAtRest /\ CleanupAtRest /\ StarsAtRest /\ ContentsAtRest /\ TruncateAtRest /\ ParseAtRest /\ ToolCallAtRest /\ SearchCacheAtRest /\ CacheAtRest /\ LimiterAtRest /\ ResolverAtRest /\ SearchAtRest /\ WaitAtRest /\ inp \in ToolCalls

NextInput ==
    \/ PreResolveSkips
    \/ \E found \in {"wiki", "github", "nothing"}, wc \in BOOLEAN, gc \in BOOLEAN :
          pre_resolve_keyword(found, wc, gc)
    \/ ValidateInput
    \/ \E usesIo \in BOOLEAN : ToolProceeds(usesIo)

SpecInput == InitInput /\ [][NextInput]_vars

(***************************************************************************)
(* Keyword resolver (resolver.py): resolve_keyword, _select_best_match,    *)
(* resolve_keyword_interactive.                                            *)
(***************************************************************************)

\* Longest result list and largest star count.
MaxResults == 2

MaxStars == 1

MAX_ELICITATION_CHOICES == 6

\* Owner and repo names: equal to the keyword "a" up to case, containing it,
\* and not containing it.
RepoNames == {<<"A">>, <<"a", "b">>, <<"b">>}

Keywords == {<<"a">>, <<"A", " ">>}

SearchResults == [owner : RepoNames, repo : RepoNames, stars : 0..MaxStars]

\* Both sources give each repository once (the scraper skips duplicates).
NoDuplicates(rs) ==
    \A i, j \in 1..Len(rs) :
        (rs[i].owner = rs[j].owner /\ rs[i].repo = rs[j].repo) => i = j

ResultLists ==
    {rs \in UNION {[1..n -> SearchResults] : n \in 0..MaxResults} :
        NoDuplicates(rs)}

\* str.lower()
LowerChar(c) == CASE c = "A" -> "a" [] c = "B" -> "b" [] OTHER -> c

Lower(v) == [i \in 1..Len(v) |-> LowerChar(v[i])]

\* sub in v
Contains(v, sub) ==
    \E i \in 0..(Len(v) - Len(sub)) : SubSeq(v, i + 1, i + Len(sub)) = sub

\* SearchResult.full_name
full_name(r) == r.owner \o <<"/">> \o r.repo

\* min(rs, key=lambda r: r.stars), had the code picked the least-starred
MinByStars(rs) ==
    rs[CHOOSE i \in 1..Len(rs) :
          \A j \in 1..Len(rs) :
              /\ rs[i].stars <= rs[j].stars
              /\ j < i => rs[i].stars < rs[j].stars]

\* max(rs, key=lambda r: r.stars): the first of the highest-starred entries

MaxByStars(rs) ==
    rs[CHOOSE i \in 1..Len(rs) :
          \A j \in 1..Len(rs) :
              /\ rs[j].stars <= rs[i].stars
              /\ j < i => rs[j].stars < rs[i].stars]

IsCanonical(kw, r) == Lower(r.owner) = kw /\ Lower(r.repo) = kw

\* _select_best_match; None is NoMatch
NoMatch == [owner |-> <<>>, repo |-> <<>>, stars |-> 0]

select_best_match(keyword, results) ==
    LET kw == Strip(Lower(keyword))
        canonical == SelectSeq(results, LAMBDA r : IsCanonical(kw, r))
        exact_repo == SelectSeq(results, LAMBDA r : Lower(r.repo) = kw)
        owner_match == SelectSeq(results, LAMBDA r : Contains(Lower(r.owner), kw))
        owner_and_repo == SelectSeq(owner_match, LAMBDA r : Lower(r.repo) = kw)
        repo_contains == SelectSeq(results, LAMBDA r : Contains(Lower(r.repo), kw))
    IN  IF results = <<>> THEN NoMatch
        ELSE IF canonical # <<>> THEN MaxByStars(canonical)
        ELSE IF exact_repo # <<>> THEN MaxByStars(exact_repo)
        ELSE IF owner_match # <<>>
             THEN IF owner_and_repo # <<>> THEN MaxByStars(owner_and_repo)
                  ELSE MaxByStars(owner_match)
        ELSE IF repo_contains # <<>> THEN MaxByStars(repo_contains)
        ELSE results[1]

\* _has_canonical_match, had it compared the owner only
has_canonical_match_owner_only(keyword, results) ==
    LET kw == Strip(Lower(keyword))
        owned == SelectSeq(results, LAMBDA r : Lower(r.owner) = kw)
    IN  IF owned = <<>> THEN NoMatch ELSE owned[1]

\* _has_canonical_match: the first canonical entry, or None
has_canonical_match(keyword, results) ==
    LET kw == Strip(Lower(keyword))
        canonical == SelectSeq(results, LAMBDA r : IsCanonical(kw, r))
    IN  IF canonical = <<>> THEN NoMatch ELSE canonical[1]

\* A resolution starts: resolve_keyword ("plain") or
\* resolve_keyword_interactive, with or without an MCP context.  wiki is what
\* the wiki's search page will give for the keyword ([] on a timeout or error).
Resolutions ==
    {[NoResolve EXCEPT !.pc = "fetch", !.mode = md[1], !.ctx = md[2],
                       !.keyword = kw, !.wiki = rs] :
        md \in {<<"plain", FALSE>>, <<"interactive", FALSE>>,
                <<"interactive", TRUE>>},
        kw \in Keywords, rs \in ResultLists}

ResolveDone(via, r) ==
    [rk EXCEPT !.pc = "done", !.via = via,
               !.selected = IF r = NoMatch THEN <<>> ELSE full_name(r)]

\* results = _fetch_search_results(keyword)
FetchSearchResults ==
    /\ rk.pc = "fetch"
    /\ rk' = [rk EXCEPT !.pc = "fetched", !.results = rk.wiki,
                        !.source = "codewiki"]
    /\ UNCHANGED notResolverVars

\* resolve_keyword: no results, or the heuristic's pick
ResolveKeywordReturns ==
    /\ rk.pc = "fetched" /\ rk.mode = "plain"
    /\ rk' = IF rk.results = <<>> THEN ResolveDone("none", NoMatch)
             ELSE ResolveDone("heuristic",
                              select_best_match(rk.keyword, rk.results))
    /\ UNCHANGED notResolverVars

\* resolve_keyword_interactive with results from the wiki
PrimaryHasResults ==
    /\ rk.pc = "fetched" /\ rk.mode = "interactive"
    /\ rk.results # <<>>
    /\ rk' = [rk EXCEPT !.pc = "select"]
    /\ UNCHANGED notResolverVars

\* resolve_keyword_interactive without: results = _github_search(keyword)
GithubFallback ==
    /\ rk.pc = "fetched" /\ rk.mode = "interactive"
    /\ rk.results = <<>>
    /\ \E rs \in ResultLists :
          rk' = IF rs = <<>>
                THEN [ResolveDone("none", NoMatch) EXCEPT
                         !.source = "github", !.consulted = @ + 1]
                ELSE [rk EXCEPT !.pc = "select", !.results = rs,
                                !.source = "github", !.consulted = @ + 1]
    /\ UNCHANGED notResolverVars

\* Single result, canonical match, or on to elicitation / the heuristic
AutoSelect ==
    /\ rk.pc = "select"
    /\ rk' = IF Len(rk.results) = 1 THEN ResolveDone("single", rk.results[1])
             ELSE IF has_canonical_match(rk.keyword, rk.results) # NoMatch
             THEN ResolveDone("canonical",
                              has_canonical_match(rk.keyword, rk.results))
             ELSE [rk EXCEPT !.pc = IF rk.ctx THEN "elicit" ELSE "heuristic"]
    /\ UNCHANGED notResolverVars

ElicitOutcomes == {"accept", "accept_no_data", "decline", "cancel", "raise"}

Min(a, b) == IF a < b THEN a ELSE b

\* _elicit_repo_choice, had it taken a declined prompt's preselection
AcceptedOrDeclined(outcome) == outcome \in {"accept", "decline"}

\* result.action == "accept" and result.data is not None
Accepted(outcome) == outcome = "accept"

\* anyio.from_thread.run(_elicit_repo_choice, ...): the prompt offers the top
\* MAX_ELICITATION_CHOICES results.
Elicit(outcome, choice) ==
    /\ rk.pc = "elicit"
    /\ choice \in 1..Min(Len(rk.results), MAX_ELICITATION_CHOICES)
    /\ rk' = IF Accepted(outcome)
             THEN [ResolveDone("elicit", rk.results[choice]) EXCEPT
                      !.prompts = @ + 1, !.answer = outcome]
             ELSE [rk EXCEPT !.pc = "heuristic", !.prompts = @ + 1,
                             !.answer = outcome]
    /\ UNCHANGED notResolverVars

\* best = _select_best_match(keyword, results)
HeuristicFallback ==
    /\ rk.pc = "heuristic"
    /\ rk' = ResolveDone("heuristic", select_best_match(rk.keyword, rk.results))
    /\ UNCHANGED notResolverVars

InitResolve ==
    /\ LoopAtRest
    /\ PagingAtRest
    /\ ReuseAtRest
    /\ FlushAtRest
    /\ ChatAtRest
    /\ BoundaryAtRest
    /\ KeywordCacheAtRest
    /\ EnsureAtRest
    /\ CleanupAtRest
    /\ StarsAtRest
    /\ ContentsAtRest
    /\ TruncateAtRest
    /\ ParseAtRest
    /\ ToolCallAtRest
    /\ SearchCacheAtRest
    /\ CacheAtRest
    /\ LimiterAtRest
    /\ SearchAtRest
    /\ WaitAtRest
    /\ InputAtRest
    /\ rk \in Resolutions

NextResolve ==
    \/ FetchSearchResults
    \/ ResolveKeywordReturns
    \/ PrimaryHasResults
    \/ GithubFallback
    \/ AutoSelect
    \/ \E outcome \in ElicitOutcomes, choice \in 1..MAX_ELICITATION_CHOICES :
          Elicit(outcome, choice)
    \/ HeuristicFallback

SpecResolve == InitResolve /\ [][NextResolve]_vars

(***************************************************************************)
(* Rate limiter (rate_limit.py).  Time is counted in whole seconds.        *)
(***************************************************************************)

\* Largest window, quota, clock value and number of calls looked at.
MaxWindow == 2

MaxQuota == 2

MaxTime == 2

MaxCalls == 4

\* A reset leaves room for this many calls fewer.
CallsPerReset == 2

\* time.monotonic() advances.
Tick ==
    /\ rl.now < MaxTime
    /\ rl' = [rl EXCEPT !.now = @ + 1, !.remaining = NoRemaining]
    /\ UNCHANGED notLimiterVars

Calling == {t \in LimiterCallers : rl.pending[t] # NoPending}

\* check_rate_limit(key) up to the lock: now = time.monotonic()
CheckStarts(t, key) ==
    /\ rl.pending[t] = NoPending
    /\ Len(rl.log) + Cardinality(Calling) + CallsPerReset * rl.resets
           < MaxCalls
    /\ rl' = [rl EXCEPT !.pending[t] = [key |-> key, now |-> rl.now],
                        !.remaining = NoRemaining]
    /\ UNCHANGED notLimiterVars

\* [t for t in timestamps if t > cutoff], had it kept everything
PrunedNever(timestamps, cutoff) == timestamps

\* [t for t in timestamps if t > cutoff]
Pruned(timestamps, cutoff) == SelectSeq(timestamps, LAMBDA ts : ts > cutoff)

\* len(timestamps) >= max_calls, had it been >
OverQuotaStrict(timestamps, max_calls) == Len(timestamps) > max_calls

\* len(timestamps) >= max_calls
OverQuota(timestamps, max_calls) == Len(timestamps) >= max_calls

\* _windows.setdefault(key, []), had there been one list for all keys
WindowKeyShared(key) == "repo-a"

\* _windows.setdefault(key, []): the list of the key.
WindowKey(key) == key

\* return False / timestamps.append(now), had a rejected call been recorded
RecordedAlways(timestamps, now, allowed) == Append(timestamps, now)

\* return False / timestamps.append(now)
Recorded(timestamps, now, allowed) ==
    IF allowed THEN Append(timestamps, now) ELSE timestamps

\* check_rate_limit(key) under the lock: prune, then reject or record.
CheckUnderLock(t) ==
    /\ rl.pending[t] # NoPending
    /\ LET key == WindowKey(rl.pending[t].key)
           now == rl.pending[t].now
           timestamps == Pruned(rl.windows[key], now - rl.window)
           allowed == ~OverQuota(timestamps, rl.max_calls)
       IN  rl' = [rl EXCEPT
                    !.pending[t] = NoPending,
                    !.windows[key] = Recorded(timestamps, now, allowed),
                    !.remaining = NoRemaining,
                    !.log = Append(@, [key |-> rl.pending[t].key, now |-> now,
                                       before |-> rl.windows[key],
                                       allowed |-> allowed])]
    /\ UNCHANGED notLimiterVars

MaxResets == 1

Max0(n) == IF n < 0 THEN 0 ELSE n

\* max(0, max_calls - len(active)), had the expired entries been counted
RemainingUnpruned(timestamps, now, window, max_calls) ==
    Max0(max_calls - Len(timestamps))

\* active = [t for t in timestamps if t > cutoff];
\* max(0, max_calls - len(active))
Remaining(timestamps, now, window, max_calls) ==
    Max0(max_calls - Len(Pruned(timestamps, now - window)))

\* The allowed calls for the key, since the last reset, that are not older
\* than the window at the given time.
AdmittedInside(key, now) ==
    {n \in 1..Len(rl.log) : /\ rl.log[n].key = key
                            /\ rl.log[n].allowed
                            /\ rl.log[n].now > now - rl.window}

\* rate_limit_remaining(key): reads _windows.get(key, []) under the lock and
\* stores nothing.  (Followed for the calls made while no check_rate_limit
\* call is between its clock reading and the lock.)
RateLimitRemaining(key) ==
    /\ Calling = {}
    /\ rl' = [rl EXCEPT !.remaining =
                 [key |-> key,
                  result |-> Remaining(rl.windows[key], rl.now, rl.window,
                                       rl.max_calls),
                  inside |-> Cardinality(AdmittedInside(key, rl.now))]]
    /\ UNCHANGED notLimiterVars

\* reset_rate_limits(): _windows.clear() under the lock.
ResetRateLimits ==
    /\ rl.resets < MaxResets
    /\ rl.log # <<>>
    /\ Calling = {}
    /\ rl' = [rl EXCEPT !.windows = [k \in LimiterKeys |-> <<>>],
                        !.log = <<>>, !.remaining = NoRemaining,
                        !.resets = @ + 1]
    /\ UNCHANGED notLimiterVars

InitLimiter ==
    /\ LoopAtRest
    /\ PagingAtRest
    /\ ReuseAtRest
    /\ FlushAtRest
    /\ ChatAtRest
    /\ BoundaryAtRest
    /\ KeywordCacheAtRest
    /\ EnsureAtRest
    /\ CleanupAtRest
    /\ StarsAtRest
    /\ ContentsAtRest
    /\ TruncateAtRest
    /\ ParseAtRest
    /\ ToolCallAtRest
    /\ SearchCacheAtRest
    /\ CacheAtRest
    /\ ResolverAtRest
    /\ SearchAtRest
    /\ WaitAtRest
    /\ InputAtRest
    /\ \E w \in 1..MaxWindow, q \in 0..MaxQuota :
          rl = [NoLimiter EXCEPT !.window = w, !.max_calls = q]

NextLimiter ==
    \/ Tick
    \/ \E t \in LimiterCallers, key \in LimiterKeys : CheckStarts(t, key)
    \/ \E t \in LimiterCallers : CheckUnderLock(t)
    \/ \E key \in LimiterKeys : RateLimitRemaining(key)
    \/ ResetRateLimits

SpecLimiter == InitLimiter /\ [][NextLimiter]_vars

(***************************************************************************)
(* Page cache (cache.py): a cachetools TTLCache(maxsize, ttl).  links is   *)
(* the cache's list of entries, oldest store first.  lastSet remembers the *)
(* latest store of the watched key and the other keys stored since;        *)
(* lastGet the latest lookup and what was known when it was made.          *)
(***************************************************************************)

\* Largest cache size, time-to-live and clock value looked at.
MaxCacheSize == 2

MaxTtl == 2

MaxCacheTime == 3

CacheValues == {"v1", "v2"}

\* An entry is expired once its expiry time is reached; releases of
\* cachetools differ on the very instant now = expires (strict is the
\* release that still serves the entry then).
Expired(link, now) ==
    IF cache.strict THEN link.expires < now ELSE link.expires <= now

\* TTLCache.expire(time)
Unexpired(links, now) == SelectSeq(links, LAMBDA l : ~Expired(l, now))

Without(links, key) == SelectSeq(links, LAMBDA l : l.key # key)

HasKey(links, key) == \E i \in 1..Len(links) : links[i].key = key

LinkOf(links, key) == links[CHOOSE i \in 1..Len(links) : links[i].key = key]

\* Cache.__setitem__: popitem() while a new key does not fit; the entry
\* stored longest ago goes first.
MakeRoom(links, key, maxsize) ==
    IF HasKey(links, key) \/ Len(links) < maxsize THEN links
    ELSE SubSeq(links, Len(links) - maxsize + 2, Len(links))

\* TTLCache.__getitem__, had it served expired entries
LookupStale(links, key, now) ==
    IF HasKey(links, key) THEN LinkOf(links, key).value ELSE "None"

\* TTLCache.get(key): the value, or None for a missing or expired entry
Lookup(links, key, now) ==
    IF HasKey(links, key) /\ ~Expired(LinkOf(links, key), now)
    THEN LinkOf(links, key).value
    ELSE "None"

\* time.monotonic() advances.
CacheTick ==
    /\ cache.now < MaxCacheTime
    /\ cache' = [cache EXCEPT !.now = @ + 1]
    /\ UNCHANGED notCacheVars

\* set_cached_page(url, html): _page_cache[url] = html
set_cached_page(url, html) ==
    /\ LET live == Unexpired(cache.links, cache.now)
           room == MakeRoom(live, url, cache.maxsize)
           new == [key |-> url, value |-> html,
                   expires |-> cache.now + cache.ttl]
       IN  cache' = [cache EXCEPT
                       !.links = Append(Without(room, url), new),
                       !.lastSet =
                           IF url = WatchedUrl
                           THEN [value |-> html, time |-> cache.now,
                                 others |-> {}]
                           ELSE IF cache.lastSet = NoSet THEN NoSet
                           ELSE [cache.lastSet EXCEPT !.others = @ \cup {url}]]
    /\ UNCHANGED notCacheVars

\* get_cached_page(url): _page_cache.get(url)
get_cached_page(url) ==
    /\ cache' = [cache EXCEPT
                   !.lastGet =
                       IF url = WatchedUrl
                       THEN [key |-> url,
                             result |-> Lookup(cache.links, url, cache.now),
                             value |-> cache.lastSet.value,
                             age |-> cache.now - cache.lastSet.time,
                             others |-> Cardinality(cache.lastSet.others)]
                       ELSE [NoGet EXCEPT
                               !.key = url,
                               !.result = Lookup(cache.links, url, cache.now)]]
    /\ UNCHANGED notCacheVars

InitCache ==
    /\ LoopAtRest
    /\ PagingAtRest
    /\ ReuseAtRest
    /\ FlushAtRest
    /\ ChatAtRest
    /\ BoundaryAtRest
    /\ KeywordCacheAtRest
    /\ EnsureAtRest
    /\ CleanupAtRest
    /\ StarsAtRest
    /\ ContentsAtRest
    /\ TruncateAtRest
    /\ ParseAtRest
    /\ ToolCallAtRest
    /\ SearchCacheAtRest
    /\ LimiterAtRest
    /\ ResolverAtRest
    /\ SearchAtRest
    /\ WaitAtRest
    /\ InputAtRest
    /\ \E ttl \in 1..MaxTtl, maxsize \in 1..MaxCacheSize, strict \in BOOLEAN :
          cache = [NoCache EXCEPT !.ttl = ttl, !.maxsize = maxsize,
                                  !.strict = strict]

NextCache ==
    \/ CacheTick
    \/ \E url \in CacheKeys, html \in CacheValues : set_cached_page(url, html)
    \/ \E url \in CacheKeys : get_cached_page(url)

SpecCache == InitCache /\ [][NextCache]_vars

(***************************************************************************)
(* Search cache (cache.py get_cached_search / set_cached_search) as used   *)
(* by codewiki_search_wiki (tools/search.py).  _search_cache is a          *)
(* TTLCache(maxsize, ttl) keyed by "repo_url::normalized query".           *)
(***************************************************************************)

SearchRepos == {"https://github.com/a/a", "https://github.com/b/b"}

WatchedRepo == "https://github.com/a/a"

\* Queries: two that differ in case and surrounding whitespace.
SearchQueries == {<<"a">>, <<" ", "A">>}

WatchedQuery == <<"a">>

\* What the chat can answer for a repository ("" is an answer that is empty
\* after _clean_response).
AnswersOf(repo) ==
    IF repo = WatchedRepo THEN {"answer-a", ""} ELSE {"answer-b"}

\* f"{repo_url}::{query}", had the query been used as typed
SearchKeyRaw(repo_url, query) == <<repo_url, query>>

\* f"{repo_url}::{query.strip().lower()}"
SearchKey(repo_url, query) == <<repo_url, Lower(Strip(query))>>

SearchExpired(link, now) ==
    IF sc.strict THEN link.expires < now ELSE link.expires <= now

\* get_cached_search(repo_url, query): the stored response or None
get_cached_search(repo_url, query) ==
    LET key == SearchKey(repo_url, query) IN
    IF HasKey(sc.links, key) /\ ~SearchExpired(LinkOf(sc.links, key), sc.now)
    THEN LinkOf(sc.links, key).value
    ELSE "None"

\* set_cached_search(repo_url, query, response) on the links
set_cached_search(repo_url, query, response) ==
    LET key == SearchKey(repo_url, query)
        live == SelectSeq(sc.links, LAMBDA l : ~SearchExpired(l, sc.now))
        room == MakeRoom(live, key, sc.maxsize)
    IN  Append(Without(room, key),
               [key |-> key, value |-> response, expires |-> sc.now + sc.ttl])

MaxSearchTime == 2

MaxSearchTtl == 2

MaxSearchSize == 1

SearchCacheTick ==
    /\ sc.now < MaxSearchTime
    /\ sc' = [sc EXCEPT !.now = @ + 1]
    /\ UNCHANGED notSearchCacheVars

IsWatched(repo_url, query) ==
    repo_url = WatchedRepo /\ Lower(Strip(query)) = WatchedQuery

\* What a call for the watched pair returned and did.
SearchCallRecord(repo_url, query, code, answer, nops) ==
    IF IsWatched(repo_url, query)
    THEN [query |-> query, code |-> code, answer |-> answer, ops |-> nops,
          at |-> sc.now]
    ELSE sc.lastCall

\* codewiki_search_wiki refused by check_rate_limit
SearchRateLimited(repo_url, query) ==
    /\ sc' = [sc EXCEPT !.lastCall =
                 SearchCallRecord(repo_url, query, "RATE_LIMITED", "none", 0)]
    /\ UNCHANGED notSearchCacheVars

\* codewiki_search_wiki answered from the search cache
SearchCacheHit(repo_url, query) ==
    /\ get_cached_search(repo_url, query) # "None"
    /\ sc' = [sc EXCEPT
                !.lastCall =
                    SearchCallRecord(repo_url, query, "ok",
                                     get_cached_search(repo_url, query), 0),
                !.otherGot =
                    IF repo_url # WatchedRepo
                    THEN get_cached_search(repo_url, query)
                    ELSE @]
    /\ UNCHANGED notSearchCacheVars

\* codewiki_search_wiki through the retry loop, ending in an answer, which is
\* stored if it is not empty
SearchAnswered(repo_url, query, answer) ==
    /\ get_cached_search(repo_url, query) = "None"
    /\ answer \in AnswersOf(repo_url)
    /\ sc' = [sc EXCEPT
                !.links = IF answer # ""
                          THEN set_cached_search(repo_url, query, answer)
                          ELSE @,
                !.lastSuccess =
                    IF IsWatched(repo_url, query)
                    THEN [query |-> query, answer |-> answer, time |-> sc.now,
                          others |-> 0]
                    ELSE IF answer # "" /\ sc.lastSuccess # NoSuccess
                    THEN [sc.lastSuccess EXCEPT
                            !.others = Min(@ + 1, sc.maxsize)]
                    ELSE sc.lastSuccess,
                !.lastCall =
                    SearchCallRecord(repo_url, query, "ok", answer, 1)]
    /\ UNCHANGED notSearchCacheVars

\* codewiki_search_wiki through the retry loop, ending in an error
SearchFailed(repo_url, query) ==
    /\ get_cached_search(repo_url, query) = "None"
    /\ sc' = [sc EXCEPT !.lastCall =
                 SearchCallRecord(repo_url, query, "RETRY_EXHAUSTED", "none",
                                  1)]
    /\ UNCHANGED notSearchCacheVars

InitSearchCache ==
    /\ LoopAtRest
    /\ PagingAtRest
    /\ ReuseAtRest
    /\ FlushAtRest
    /\ ChatAtRest
    /\ BoundaryAtRest
    /\ KeywordCacheAtRest
    /\ EnsureAtRest
    /\ CleanupAtRest
    /\ StarsAtRest
    /\ ContentsAtRest
    /\ TruncateAtRest
    /\ ParseAtRest
    /\ ToolCallAtRest
    /\ CacheAtRest
    /\ LimiterAtRest
    /\ ResolverAtRest
    /\ SearchAtRest
    /\ WaitAtRest
    /\ InputAtRest
    /\ \E ttl \in 1..MaxSearchTtl, maxsize \in 1..MaxSearchSize,
          strict \in BOOLEAN :
          sc = [NoSearchCache EXCEPT !.ttl = ttl, !.maxsize = maxsize,
                                     !.strict = strict]

NextSearchCache ==
    \/ SearchCacheTick
    \/ \E r \in SearchRepos, q \in SearchQueries : SearchRateLimited(r, q)
    \/ \E r \in SearchRepos, q \in SearchQueries : SearchCacheHit(r, q)
    \/ \E r \in SearchRepos, q \in SearchQueries :
          \E a \in AnswersOf(r) : SearchAnswered(r, q, a)
    \/ \E r \in SearchRepos, q \in SearchQueries : SearchFailed(r, q)

SpecSearchCache == InitSearchCache /\ [][NextSearchCache]_vars

(***************************************************************************)
(* One call of a tool that reads a repository's wiki: codewiki_list_topics *)
(* (tools/topics.py), read_wiki_structure (tools/structure.py),            *)
(* read_wiki_contents (tools/contents.py), codewiki_search_wiki            *)
(* (tools/search.py), with the rate limiter's verdict for the repository   *)
(* and the rendered page as inputs.                                        *)
(***************************************************************************)

DocumentTools == {"list_topics", "read_structure", "read_contents"}

Tools == DocumentTools \cup {"search_wiki"}

\* What a rendered body can hold: a sidebar link whose text is the icon name
\* "refresh" (one of config.UI_ARTIFACTS), a sidebar link with a title, a
\* <body-content-section>, a heading with text under it, a paragraph, the
\* "This page doesn't exist" notice.
BodyElements == {"nav-refresh", "nav-title", "content-section", "heading",
                 "paragraph", "not-found-notice"}

Bodies == SUBSET BodyElements

\* _parse_sections: <body-content-section> elements if there are any,
\* otherwise the headings
parse_sections(body) ==
    IF "content-section" \in body
    THEN [strategy |-> "codewiki", n |-> 1]
    ELSE [strategy |-> "headings", n |-> IF "heading" \in body THEN 1 ELSE 0]

\* _extract_toc: the sidebar links with a text longer than one character,
\* otherwise the headings
extract_toc(body) ==
    LET links == Cardinality(body \cap {"nav-refresh", "nav-title"}) IN
    IF links > 0 THEN links
    ELSE IF "heading" \in body THEN 1 ELSE 0

\* body.get_text() with every config.UI_ARTIFACTS string removed
raw_text_of(body) ==
    IF "not-found-notice" \in body THEN "not-indexed-text"
    ELSE IF body \ {"nav-refresh"} # {} THEN "text"
    ELSE ""

\* parser.fetch_wiki_page on a rendered body
fetch_wiki_page(body) ==
    [strategy |-> parse_sections(body).strategy,
     sections |-> parse_sections(body).n,
     toc |-> extract_toc(body),
     raw_text |-> raw_text_of(body)]

\* _helpers._is_not_indexed
is_not_indexed(page) ==
    /\ page.sections = 0
    /\ page.raw_text = "not-indexed-text"

\* The code read_wiki_structure gives a fetched page:
\* if not page.toc and not page.sections
structure_code(page) ==
    IF page.toc = 0 /\ page.sections = 0 THEN "NO_CONTENT" ELSE "ok"

\* _helpers._validate_fetched_page
validate_fetched_page(page) ==
    IF page.sections = 0 /\ page.raw_text = "" THEN "NO_CONTENT"
    ELSE IF is_not_indexed(page) THEN "NOT_INDEXED"
    ELSE "ok"

\* wait_for_rate_limit(repo_url): False when the limiter rejects the URL
wait_for_rate_limit == ~tc.limited

\* search.py: check_rate_limit(validated.repo_url)
check_rate_limit_admits == ~tc.limited

ToolDone(code) == [tc EXCEPT !.pc = "done", !.code = code]

\* codewiki_list_topics: a topic-cache hit is returned at once
TopicsCacheHit ==
    /\ tc.pc = "start"
    /\ tc.tool = "list_topics"
    /\ tc.cached
    /\ tc' = ToolDone("ok")
    /\ UNCHANGED notToolCallVars

\* codewiki_list_topics without a cached list, read_wiki_contents: on to
\* fetch_page_or_error
CallsFetchPageOrError ==
    /\ tc.pc = "start"
    /\ \/ tc.tool = "list_topics" /\ ~tc.cached
       \/ tc.tool = "read_contents"
    /\ tc' = [tc EXCEPT !.pc = "fetch_page_or_error"]
    /\ UNCHANGED notToolCallVars

\* fetch_page_or_error: not wait_for_rate_limit
FetchPageRateLimited ==
    /\ tc.pc = "fetch_page_or_error"
    /\ ~wait_for_rate_limit
    /\ tc' = ToolDone("RATE_LIMITED")
    /\ UNCHANGED notToolCallVars

\* fetch_page_or_error: the fetch and _validate_fetched_page
FetchPageOrError ==
    /\ tc.pc = "fetch_page_or_error"
    /\ wait_for_rate_limit
    /\ tc' = [tc EXCEPT !.pc = "done",
                        !.fetches = @ + 1,
                        !.page = fetch_wiki_page(tc.body),
                        !.code = validate_fetched_page(fetch_wiki_page(tc.body))]
    /\ UNCHANGED notToolCallVars

\* fetch_page_or_error: the fetch raises
FetchPageFails(code) ==
    /\ tc.pc = "fetch_page_or_error"
    /\ wait_for_rate_limit
    /\ code \in {"TIMEOUT", "INTERNAL"}
    /\ tc' = [tc EXCEPT !.pc = "done", !.fetches = @ + 1, !.code = code]
    /\ UNCHANGED notToolCallVars

\* read_wiki_structure: fetch_wiki_page straight after validation
ReadStructure ==
    /\ tc.pc = "start"
    /\ tc.tool = "read_structure"
    /\ tc' = [tc EXCEPT !.pc = "done",
                        !.fetches = @ + 1,
                        !.page = fetch_wiki_page(tc.body),
                        !.code = structure_code(fetch_wiki_page(tc.body))]
    /\ UNCHANGED notToolCallVars

\* read_wiki_structure: the fetch raises
ReadStructureFails(code) ==
    /\ tc.pc = "start"
    /\ tc.tool = "read_structure"
    /\ code \in {"TIMEOUT", "INTERNAL"}
    /\ tc' = [tc EXCEPT !.pc = "done", !.fetches = @ + 1, !.code = code]
    /\ UNCHANGED notToolCallVars

\* codewiki_search_wiki: not check_rate_limit
SearchToolRateLimited ==
    /\ tc.pc = "start"
    /\ tc.tool = "search_wiki"
    /\ ~check_rate_limit_admits
    /\ tc' = ToolDone("RATE_LIMITED")
    /\ UNCHANGED notToolCallVars

\* codewiki_search_wiki: admitted, the chat query is submitted
SearchToolChats(code) ==
    /\ tc.pc = "start"
    /\ tc.tool = "search_wiki"
    /\ check_rate_limit_admits
    /\ code \in {"ok", "RETRY_EXHAUSTED"}
    /\ tc' = [tc EXCEPT !.pc = "done", !.chats = @ + 1, !.code = code]
    /\ UNCHANGED notToolCallVars

InitTool ==
    /\ LoopAtRest
    /\ PagingAtRest
    /\ ReuseAtRest
    /\ FlushAtRest
    /\ ChatAtRest
    /\ BoundaryAtRest
    /\ KeywordCacheAtRest
    /\ EnsureAtRest
    /\ CleanupAtRest
    /\ StarsAtRest
    /\ ContentsAtRest
    /\ TruncateAtRest
    /\ ParseAtRest
    /\ SearchCacheAtRest
    /\ CacheAtRest
    /\ LimiterAtRest
    /\ ResolverAtRest
    /\ SearchAtRest
    /\ WaitAtRest
    /\ InputAtRest
    /\ \E t \in Tools, limited \in BOOLEAN, cached \in BOOLEAN, body \in Bodies :
          tc = [NoToolCall EXCEPT !.pc = "start", !.tool = t,
                                  !.limited = limited, !.cached = cached,
                                  !.body = body]

NextTool ==
    \/ TopicsCacheHit
    \/ CallsFetchPageOrError
    \/ FetchPageRateLimited
    \/ FetchPageOrError
    \/ \E code \in {"TIMEOUT", "INTERNAL"} : FetchPageFails(code)
    \/ ReadStructure
    \/ \E code \in {"TIMEOUT", "INTERNAL"} : ReadStructureFails(code)
    \/ SearchToolRateLimited
    \/ \E code \in {"ok", "RETRY_EXHAUSTED"} : SearchToolChats(code)

SpecTool == InitTool /\ [][NextTool]_vars

(***************************************************************************)
(* Section extraction (parser.py _parse_sections): a document is the       *)
(* sequence of its elements, in document order.                            *)
(***************************************************************************)

MaxElems == 3

\* <body-content-section> with a heading in it, <body-content-section>
\* without one, a heading outside any such element, a paragraph.
DocElements == {"section-with-heading", "section-plain", "heading", "paragraph"}

Documents == UNION {[1..n -> DocElements] : n \in 0..MaxElems}

\* soup.find_all("body-content-section")
bcs_elements(doc) ==
    SelectSeq(doc, LAMBDA e : e \in {"section-with-heading", "section-plain"})

RECURSIVE parse_codewiki_sections(_)
\* _parse_codewiki_sections: one section for each element, titled by its
\* heading or "Overview"
parse_codewiki_sections(elems) ==
    IF elems = <<>> THEN <<>>
    ELSE <<[by |-> "codewiki",
            title |-> IF Head(elems) = "section-with-heading"
                      THEN "heading" ELSE "Overview"]>>
         \o parse_codewiki_sections(Tail(elems))

RECURSIVE parse_heading_sections(_)
\* _parse_heading_sections: one section for each heading tag, also those
\* inside a <body-content-section>
parse_heading_sections(doc) ==
    IF doc = <<>> THEN <<>>
    ELSE (IF Head(doc) \in {"heading", "section-with-heading"}
          THEN <<[by |-> "headings", title |-> "heading"]>> ELSE <<>>)
         \o parse_heading_sections(Tail(doc))

\* Both strategies, one after the other
ParseSectionsBoth(doc) ==
    [sections |-> parse_codewiki_sections(bcs_elements(doc))
                  \o parse_heading_sections(doc),
     ran |-> {"codewiki", "headings"}]

\* _parse_sections: the sections and the strategies that ran
ParseSections(doc) ==
    IF bcs_elements(doc) # <<>>
    THEN [sections |-> parse_codewiki_sections(bcs_elements(doc)),
          ran |-> {"codewiki"}]
    ELSE [sections |-> parse_heading_sections(doc), ran |-> {"headings"}]

ParseDocument ==
    /\ pg.pc = "start"
    /\ pg' = [pg EXCEPT !.pc = "done",
                        !.sections = ParseSections(pg.doc).sections,
                        !.ran = ParseSections(pg.doc).ran]
    /\ UNCHANGED notParseVars

InitParse ==
    /\ LoopAtRest
    /\ PagingAtRest
    /\ ReuseAtRest
    /\ FlushAtRest
    /\ ChatAtRest
    /\ BoundaryAtRest
    /\ KeywordCacheAtRest
    /\ EnsureAtRest
    /\ CleanupAtRest
    /\ StarsAtRest
    /\ ContentsAtRest
    /\ TruncateAtRest
    /\ SearchAtRest
    /\ WaitAtRest
    /\ InputAtRest
    /\ ResolverAtRest
    /\ LimiterAtRest
    /\ CacheAtRest
    /\ SearchCacheAtRest
    /\ ToolCallAtRest
    /\ \E doc \in Documents : pg = [NoParse EXCEPT !.pc = "start", !.doc = doc]

NextParse == ParseDocument

SpecParse == InitParse /\ [][NextParse]_vars

(***************************************************************************)
(* Truncation to a character budget: truncate_response                     *)
(* (tools/_helpers.py), the tail of page_to_markdown (parser.py) and the   *)
(* tail of _search_impl (tools/search.py).  A text is a sequence of        *)
(* characters.                                                             *)
(***************************************************************************)

MaxLead == 9

MaxTail == 3

MaxBudget == 10

TextChars == {"a", " ", "\n"}

\* Texts: a run of letters followed by a few characters of any kind.
TruncTexts ==
    {[i \in 1..p |-> "a"] \o t :
        p \in 0..MaxLead, t \in UNION {[1..n -> TextChars] : n \in 0..MaxTail}}

\* "\n\n... [truncated]"
TruncationMarker ==
    <<"\n", "\n", ".", ".", ".", " ", "[", "t", "r", "u", "n", "c", "a", "t",
      "e", "d", "]">>

\* str.isspace on the characters used here
IsWhitespace(c) == c \in {" ", "\n"}

\* str.rstrip()
RECURSIVE RStripWhitespace(_)
RStripWhitespace(v) ==
    IF v # <<>> /\ IsWhitespace(v[Len(v)])
    THEN RStripWhitespace(SubSeq(v, 1, Len(v) - 1))
    ELSE v

\* str.rfind(c), as a 0-based index, -1 if c does not occur
RFind(v, c) ==
    LET at == {i \in 1..Len(v) : v[i] = c} IN
    IF at = {} THEN -1 ELSE (CHOOSE i \in at : \A j \in at : j <= i) - 1

\* index > max_chars * 0.8
PastFourFifths(index, max_chars) == 5 * index > 4 * max_chars

\* _helpers.truncate_response(data, max_chars)
truncate_response(data, max_chars) ==
    IF max_chars = 0 \/ Len(data) <= max_chars
    THEN [text |-> data, truncated |-> FALSE]
    ELSE LET cut == SubSeq(data, 1, max_chars)
             last_nl == RFind(cut, "\n")
             last_sp == RFind(cut, " ")
             kept == IF PastFourFifths(last_nl, max_chars)
                     THEN SubSeq(cut, 1, last_nl)
                     ELSE IF PastFourFifths(last_sp, max_chars)
                     THEN SubSeq(cut, 1, last_sp)
                     ELSE cut
         IN  [text |-> RStripWhitespace(kept) \o TruncationMarker,
              truncated |-> TRUE]

\* text[:max_chars] + "\n\n... [truncated]" of page_to_markdown and of
\* _search_impl (there with config.RESPONSE_MAX_CHARS)
truncate_plain(text, max_chars) ==
    IF max_chars # 0 /\ Len(text) > max_chars
    THEN [text |-> SubSeq(text, 1, max_chars) \o TruncationMarker,
          truncated |-> TRUE]
    ELSE [text |-> text, truncated |-> FALSE]

TruncateResponse ==
    /\ tr.pc = "start"
    /\ tr.fn = "truncate_response"
    /\ tr' = [tr EXCEPT
                !.pc = "done",
                !.result = truncate_response(tr.data, tr.max_chars).text,
                !.truncated = truncate_response(tr.data, tr.max_chars).truncated]
    /\ UNCHANGED notTruncateVars

PageToMarkdownTail ==
    /\ tr.pc = "start"
    /\ tr.fn = "page_to_markdown"
    /\ tr' = [tr EXCEPT
                !.pc = "done",
                !.result = truncate_plain(tr.data, tr.max_chars).text,
                !.truncated = truncate_plain(tr.data, tr.max_chars).truncated]
    /\ UNCHANGED notTruncateVars

\* _search_impl: the budget is config.RESPONSE_MAX_CHARS, positive
SearchImplTail ==
    /\ tr.pc = "start"
    /\ tr.fn = "search_impl"
    /\ tr' = [tr EXCEPT
                !.pc = "done",
                !.result = truncate_plain(tr.data, tr.max_chars).text,
                !.truncated = truncate_plain(tr.data, tr.max_chars).truncated]
    /\ UNCHANGED notTruncateVars

InitTruncate ==
    /\ LoopAtRest
    /\ PagingAtRest
    /\ ReuseAtRest
    /\ FlushAtRest
    /\ ChatAtRest
    /\ BoundaryAtRest
    /\ KeywordCacheAtRest
    /\ EnsureAtRest
    /\ CleanupAtRest
    /\ StarsAtRest
    /\ ContentsAtRest
    /\ SearchAtRest
    /\ WaitAtRest
    /\ InputAtRest
    /\ ResolverAtRest
    /\ LimiterAtRest
    /\ CacheAtRest
    /\ SearchCacheAtRest
    /\ ToolCallAtRest
    /\ ParseAtRest
    /\ \E fn \in {"truncate_response", "page_to_markdown", "search_impl"},
          data \in TruncTexts, max_chars \in 0..MaxBudget :
          /\ fn = "search_impl" => max_chars > 0
          /\ tr = [NoTruncate EXCEPT !.pc = "start", !.fn = fn, !.data = data,
                                     !.max_chars = max_chars]

NextTruncate ==
    \/ TruncateResponse
    \/ PageToMarkdownTail
    \/ SearchImplTail

SpecTruncate == InitTruncate /\ [][NextTruncate]_vars

(***************************************************************************)
(* read_wiki_contents with an empty section_title (tools/contents.py): the *)
(* paginated render of a fetched page and its truncation.  Section i of    *)
(* the page has the title SectionTitles[i] and the content                 *)
(* SectionContents[i], one character each.                                 *)
(***************************************************************************)

MaxSections == 4

MaxOffset == 3

MaxLimit == 3

\* Values of config.RESPONSE_MAX_CHARS: 0 (no limit), one that the render of
\* two sections exceeds, one that every render here fits.
SmallResponseBudget == 24

LargeResponseBudget == 80

SectionTitles == <<"A", "B", "C", "D", "E">>

SectionContents == <<"a", "b", "c", "d", "e">>

Digits == <<"1", "2", "3", "4", "5", "6", "7", "8", "9">>

\* "\n".join(parts)
RECURSIVE JoinLines(_)
JoinLines(parts) ==
    IF parts = <<>> THEN <<>>
    ELSE IF Len(parts) = 1 THEN parts[1]
    ELSE parts[1] \o <<"\n">> \o JoinLines(Tail(parts))

RECURSIVE LStripWhitespace(_)
LStripWhitespace(v) ==
    IF v # <<>> /\ IsWhitespace(Head(v)) THEN LStripWhitespace(Tail(v)) ELSE v

\* page.sections[offset : offset + limit], as section numbers
Sliced(total, offset, limit) ==
    [k \in 1..(Min(offset + limit, total) - Min(offset, total)) |-> offset + k]

\* f"\n## {section.title}\n" and section.content, for each sliced section
RECURSIVE SectionParts(_)
SectionParts(sliced) ==
    IF sliced = <<>> THEN <<>>
    ELSE << <<"\n", "#", "#", " ", SectionTitles[Head(sliced)], "\n">>,
            <<SectionContents[Head(sliced)]>> >>
         \o SectionParts(Tail(sliced))

\* "\n\n---\n*Showing sections ... Call again with `offset={next_off}` to
\* continue.*", shortened to the rule and the offset
ContinuationHint(next_off) ==
    <<"\n", "\n", "-", "-", "-", "\n", "*", "o", "f", "f", "s", "e", "t", "=",
      Digits[next_off], "*">>

\* The paginated full-page path of read_wiki_contents, before truncation
RenderContents(total, offset, limit) ==
    LET has_more == offset + limit < total
        parts == << <<"#", " ", "T", "\n">> >>
                 \o SectionParts(Sliced(total, offset, limit))
                 \o (IF has_more THEN <<ContinuationHint(offset + limit)>>
                     ELSE <<>>)
    IN  RStripWhitespace(LStripWhitespace(JoinLines(parts)))

\* read_wiki_contents: render, then truncate_response(data,
\* config.RESPONSE_MAX_CHARS)
ReadContents ==
    /\ rc.pc = "start"
    /\ LET data == RenderContents(rc.total, rc.offset, rc.limit)
           out == truncate_response(data, rc.max_chars)
       IN  rc' = [rc EXCEPT !.pc = "done", !.data = out.text,
                            !.truncated = out.truncated]
    /\ UNCHANGED notContentsVars

InitContents ==
    /\ LoopAtRest
    /\ PagingAtRest
    /\ ReuseAtRest
    /\ FlushAtRest
    /\ ChatAtRest
    /\ BoundaryAtRest
    /\ KeywordCacheAtRest
    /\ EnsureAtRest
    /\ CleanupAtRest
    /\ StarsAtRest
    /\ SearchAtRest
    /\ WaitAtRest
    /\ InputAtRest
    /\ ResolverAtRest
    /\ LimiterAtRest
    /\ CacheAtRest
    /\ SearchCacheAtRest
    /\ ToolCallAtRest
    /\ ParseAtRest
    /\ TruncateAtRest
    /\ \E total \in 0..MaxSections, offset \in 0..MaxOffset,
          limit \in 1..MaxLimit,
          max_chars \in {0, SmallResponseBudget, LargeResponseBudget} :
          rc = [NoContents EXCEPT !.pc = "start", !.total = total,
                                  !.offset = offset, !.limit = limit,
                                  !.max_chars = max_chars]

NextContents == ReadContents

SpecContents == InitContents /\ [][NextContents]_vars

(***************************************************************************)
(* Star-count parsing (resolver.py _parse_stars).  float() is modelled on  *)
(* decimal numerals and "inf", with exact arithmetic.                      *)
(***************************************************************************)

MaxStarPieces == 3

StarPieces == {<<"2", "0", "9", ".", "9">>, <<"1", ".", "3">>, <<"5", "2">>,
               <<"k">>, <<"M">>, <<".">>, <<",">>, <<" ">>,
               <<"i", "n", "f">>, <<"x">>}

DigitChars == <<"0", "1", "2", "3", "4", "5", "6", "7", "8", "9">>

IsDigit(c) == \E d \in 1..10 : DigitChars[d] = c

DigitValue(c) == (CHOOSE d \in 1..10 : DigitChars[d] = c) - 1

\* The texts whose numbers stay within the model's integers: no run of more
\* than three digits.
StarTexts ==
    {t \in {Flatten(ps) : ps \in UNION {[1..n -> StarPieces] :
                                          n \in 0..MaxStarPieces}} :
        \A i \in 1..(Len(t) - 3) : \E j \in i..(i + 3) : ~IsDigit(t[j])}

\* str.lower() on the characters used here
LowerStarChar(c) == IF c = "M" THEN "m" ELSE c

\* text.strip().lower().replace(",", "")
CleanStars(text) ==
    LET v == Strip(text)
        low == [i \in 1..Len(v) |-> LowerStarChar(v[i])]
    IN  SelectSeq(low, LAMBDA c : c # ",")

RECURSIVE DigitsValue(_)
DigitsValue(ds) ==
    IF ds = <<>> THEN 0
    ELSE 10 * DigitsValue(SubSeq(ds, 1, Len(ds) - 1)) + DigitValue(ds[Len(ds)])

RECURSIVE Pow10(_)
Pow10(n) == IF n = 0 THEN 1 ELSE 10 * Pow10(n - 1)

AllDigits(v) == \A i \in 1..Len(v) : IsDigit(v[i])

\* float(s): a decimal numeral, infinity, or a ValueError
ParseFloat(s) ==
    LET v == Strip(s)
        dots == {i \in 1..Len(v) : v[i] = "."}
    IN  IF v = <<"i", "n", "f">> THEN [kind |-> "inf", whole |-> 0, frac |-> 0,
                                       places |-> 0]
        ELSE IF v # <<>> /\ dots = {} /\ AllDigits(v)
        THEN [kind |-> "number", whole |-> DigitsValue(v), frac |-> 0,
              places |-> 0]
        ELSE IF Cardinality(dots) = 1 /\ Len(v) > 1
        THEN LET d == CHOOSE i \in dots : TRUE
                 w == SubSeq(v, 1, d - 1)
                 f == SubSeq(v, d + 1, Len(v))
             IN  IF AllDigits(w) /\ AllDigits(f)
                 THEN [kind |-> "number", whole |-> DigitsValue(w),
                       frac |-> DigitsValue(f), places |-> Len(f)]
                 ELSE [kind |-> "ValueError", whole |-> 0, frac |-> 0,
                       places |-> 0]
        ELSE [kind |-> "ValueError", whole |-> 0, frac |-> 0, places |-> 0]

\* int(float(s) * factor) under try / except (ValueError, IndexError)
IntOfFloatTimes(s, factor) ==
    LET f == ParseFloat(s) IN
    IF f.kind = "number"
    THEN [value |-> f.whole * factor + (f.frac * factor) \div Pow10(f.places),
          raised |-> "none"]
    ELSE IF f.kind = "inf" THEN [value |-> 0, raised |-> "OverflowError"]
    ELSE [value |-> 0, raised |-> "none"]

\* resolver._parse_stars(text)
parse_stars(text) ==
    LET t == CleanStars(text)
        body == SubSeq(t, 1, Len(t) - 1)
    IN  IF t = <<>> THEN [value |-> 0, raised |-> "none"]
        ELSE IF t[Len(t)] = "k" THEN IntOfFloatTimes(body, 1000)
        ELSE IF t[Len(t)] = "m" THEN IntOfFloatTimes(body, 1000000)
        ELSE IntOfFloatTimes(t, 1)

ParseStars ==
    /\ st.pc = "start"
    /\ st' = [st EXCEPT !.pc = "done",
                        !.result = parse_stars(st.text).value,
                        !.raised = parse_stars(st.text).raised]
    /\ UNCHANGED notStarsVars

InitStars ==
    /\ LoopAtRest
    /\ PagingAtRest
    /\ ReuseAtRest
    /\ FlushAtRest
    /\ ChatAtRest
    /\ BoundaryAtRest
    /\ KeywordCacheAtRest
    /\ EnsureAtRest
    /\ CleanupAtRest
    /\ SearchAtRest
    /\ WaitAtRest
    /\ InputAtRest
    /\ ResolverAtRest
    /\ LimiterAtRest
    /\ CacheAtRest
    /\ SearchCacheAtRest
    /\ ToolCallAtRest
    /\ ParseAtRest
    /\ TruncateAtRest
    /\ ContentsAtRest
    /\ \E text \in StarTexts : st = [NoStars EXCEPT !.pc = "start", !.text = text]

NextStars == ParseStars

SpecStars == InitStars /\ [][NextStars]_vars

(***************************************************************************)
(* Shutdown (server.py _shutdown and main's finally) and cleanup_browser   *)
(* (browser.py).  Call 1 is the signal handler's                           *)
(* run_in_browser_loop(cleanup_browser()), call 2 the one in main's        *)
(* finally block; each cleanup_browser is a task on the browser loop that  *)
(* gives way at its awaits.                                                *)
(***************************************************************************)

CleanupCalls == {1, 2}

\* The process runs: the loop thread is a daemon thread and ends with main.
Running == cl.main # "exit"

\* run_in_browser_loop(cleanup_browser()): the coroutine is handed to the loop
SubmitCleanup(i) ==
    /\ cl.main = IF i = 1 THEN "handler" ELSE "finally"
    /\ cl' = [cl EXCEPT !.main = IF i = 1 THEN "handler_waits"
                                 ELSE "finally_waits",
                        !.task[i].pc = "if_browser"]
    /\ UNCHANGED notCleanupVars

\* if _browser: ... await _browser.close()
CleanupTestsBrowser(i) ==
    /\ Running
    /\ cl.task[i].pc = "if_browser"
    /\ cl' = IF cl.browser # "None"
             THEN [cl EXCEPT !.task[i].pc = "closing", !.task[i].closes = @ + 1]
             ELSE [cl EXCEPT !.task[i].pc = "if_pw"]
    /\ UNCHANGED notCleanupVars

\* _browser.close() returns or raises (except Exception: pass); then
\* _browser = None
BrowserCloseEnds(i, raises) ==
    /\ Running
    /\ cl.task[i].pc = "closing"
    /\ cl' = [cl EXCEPT !.task[i].pc = "if_pw",
                        !.task[i].swallowed = IF raises THEN @ + 1 ELSE @,
                        !.browser = "None"]
    /\ UNCHANGED notCleanupVars

\* if _pw: ... await _pw.stop()
CleanupTestsPw(i) ==
    /\ Running
    /\ cl.task[i].pc = "if_pw"
    /\ cl' = IF cl.pw # "None"
             THEN [cl EXCEPT !.task[i].pc = "stopping", !.task[i].closes = @ + 1]
             ELSE [cl EXCEPT !.task[i].pc = "done"]
    /\ UNCHANGED notCleanupVars

\* _pw.stop() returns or raises (except Exception: pass); then _pw = None
PwStopEnds(i, raises) ==
    /\ Running
    /\ cl.task[i].pc = "stopping"
    /\ cl' = [cl EXCEPT !.task[i].pc = "done",
                        !.task[i].swallowed = IF raises THEN @ + 1 ELSE @,
                        !.pw = "None"]
    /\ UNCHANGED notCleanupVars

\* What follows a call in the main thread: sys.exit(0) in the handler raises
\* SystemExit into main, whose finally block runs; after that the process
\* ends.
AfterCall(i) == IF i = 1 THEN "finally" ELSE "exit"

\* future.result(timeout=HARD_TIMEOUT_SECONDS) returns: the task is done
CleanupReturned(i) ==
    /\ cl.main = IF i = 1 THEN "handler_waits" ELSE "finally_waits"
    /\ cl.task[i].pc = "done"
    /\ cl' = [cl EXCEPT !.main = AfterCall(i),
                        !.after[i] = cl.browser \o "/" \o cl.pw]
    /\ UNCHANGED notCleanupVars

\* future.result(timeout=HARD_TIMEOUT_SECONDS) raises TimeoutError, which the
\* caller's except Exception swallows; the task stays on the loop
CleanupTimesOut(i) ==
    /\ cl.main = IF i = 1 THEN "handler_waits" ELSE "finally_waits"
    /\ cl.task[i].pc # "done"
    /\ cl' = [cl EXCEPT !.main = AfterCall(i),
                        !.timedOut[i] = TRUE,
                        !.after[i] = cl.browser \o "/" \o cl.pw]
    /\ UNCHANGED notCleanupVars

\* At shutdown: with a signal (handler, then finally) or without (finally
\* only); no browser yet, a driver without a browser (the launch failed), or
\* both.
InitCleanup ==
    /\ LoopAtRest
    /\ PagingAtRest
    /\ ReuseAtRest
    /\ FlushAtRest
    /\ ChatAtRest
    /\ BoundaryAtRest
    /\ KeywordCacheAtRest
    /\ EnsureAtRest
    /\ SearchAtRest
    /\ WaitAtRest
    /\ InputAtRest
    /\ ResolverAtRest
    /\ LimiterAtRest
    /\ CacheAtRest
    /\ SearchCacheAtRest
    /\ ToolCallAtRest
    /\ ParseAtRest
    /\ TruncateAtRest
    /\ ContentsAtRest
    /\ StarsAtRest
    /\ \E signalled \in BOOLEAN,
          h \in {<<"None", "None">>, <<"None", "pw">>, <<"browser", "pw">>} :
          cl = [NoCleanup EXCEPT !.main = IF signalled THEN "handler"
                                          ELSE "finally",
                                 !.signalled = signalled,
                                 !.browser = h[1], !.pw = h[2]]

NextCleanup ==
    \/ \E i \in CleanupCalls : SubmitCleanup(i)
    \/ \E i \in CleanupCalls : CleanupTestsBrowser(i)
    \/ \E i \in CleanupCalls, raises \in BOOLEAN : BrowserCloseEnds(i, raises)
    \/ \E i \in CleanupCalls : CleanupTestsPw(i)
    \/ \E i \in CleanupCalls, raises \in BOOLEAN : PwStopEnds(i, raises)
    \/ \E i \in CleanupCalls : CleanupReturned(i)
    \/ \E i \in CleanupCalls : CleanupTimesOut(i)

SpecCleanup == InitCleanup /\ [][NextCleanup]_vars

(***************************************************************************)
(* _ensure_loop (browser.py): caller threads create the background event   *)
(* loop and its thread under _lock.  Loops are numbered in the order of    *)
(* their creation; 0 is None.                                              *)
(***************************************************************************)

MaxEnsureCalls == 2

MaxLoopCloses == 1

\* with _lock, had the lock not excluded anybody
LockNeverHeld == TRUE

\* with _lock: the lock is free
LockFree == el.lock = "none"

\* A caller thread enters _ensure_loop and takes _lock
EnsureAcquire(t) ==
    /\ el.pc[t] = "idle"
    /\ el.calls[t] < MaxEnsureCalls
    /\ LockFree
    /\ el' = [el EXCEPT !.pc[t] = "test", !.lock = t, !.calls[t] = @ + 1]
    /\ UNCHANGED notEnsureVars

\* if _loop is None or _loop.is_closed()
EnsureTest(t) ==
    /\ el.pc[t] = "test"
    /\ el' = [el EXCEPT !.pc[t] = IF el.loop = 0 \/ el.closed THEN "new_loop"
                                  ELSE "release"]
    /\ UNCHANGED notEnsureVars

\* _loop = asyncio.new_event_loop()
EnsureNewLoop(t) ==
    /\ el.pc[t] = "new_loop"
    /\ el' = [el EXCEPT !.pc[t] = "start_thread", !.created = @ + 1,
                        !.loop = el.created + 1, !.closed = FALSE]
    /\ UNCHANGED notEnsureVars

\* _thread = threading.Thread(target=_start_loop, ...); _thread.start()
EnsureStartThread(t) ==
    /\ el.pc[t] = "start_thread"
    /\ el' = [el EXCEPT !.pc[t] = "release", !.threads = @ + 1]
    /\ UNCHANGED notEnsureVars

\* The with block ends
EnsureRelease(t) ==
    /\ el.pc[t] = "release"
    /\ el' = [el EXCEPT !.pc[t] = "return",
                        !.lock = IF @ = t THEN "none" ELSE @]
    /\ UNCHANGED notEnsureVars

\* return _loop
EnsureReturn(t) ==
    /\ el.pc[t] = "return"
    /\ el' = [el EXCEPT !.pc[t] = "idle", !.got[t] = el.loop]
    /\ UNCHANGED notEnsureVars

\* The loop is closed from outside (nothing in the package closes it)
LoopCloses ==
    /\ el.loop # 0
    /\ ~el.closed
    /\ el.closes < MaxLoopCloses
    /\ el' = [el EXCEPT !.closed = TRUE, !.closes = @ + 1]
    /\ UNCHANGED notEnsureVars

InitEnsure ==
    /\ LoopAtRest
    /\ PagingAtRest
    /\ ReuseAtRest
    /\ FlushAtRest
    /\ ChatAtRest
    /\ BoundaryAtRest
    /\ KeywordCacheAtRest
    /\ SearchAtRest
    /\ WaitAtRest
    /\ InputAtRest
    /\ ResolverAtRest
    /\ LimiterAtRest
    /\ CacheAtRest
    /\ SearchCacheAtRest
    /\ ToolCallAtRest
    /\ ParseAtRest
    /\ TruncateAtRest
    /\ ContentsAtRest
    /\ StarsAtRest
    /\ CleanupAtRest
    /\ el = [NoEnsure EXCEPT !.pc = [t \in EnsureCallers |-> "idle"]]

NextEnsure ==
    \/ \E t \in EnsureCallers : EnsureAcquire(t)
    \/ \E t \in EnsureCallers : EnsureTest(t)
    \/ \E t \in EnsureCallers : EnsureNewLoop(t)
    \/ \E t \in EnsureCallers : EnsureStartThread(t)
    \/ \E t \in EnsureCallers : EnsureRelease(t)
    \/ \E t \in EnsureCallers : EnsureReturn(t)
    \/ LoopCloses

SpecEnsure == InitEnsure /\ [][NextEnsure]_vars

(***************************************************************************)
(* The resolver's keyword caches (resolver.py): _resolve_cache for the     *)
(* CodeWiki search scrape and _github_cache for the GitHub API, both       *)
(* TTLCache(maxsize=50, ttl=1800) keyed by keyword.lower().  A list of     *)
(* results is one of "[a/a]", "[b/b]" and the empty list "[]"; "None" is   *)
(* a missing entry.                                                        *)
(***************************************************************************)

MaxKeywordTime == 2

MaxKeywordTtl == 2

MaxKeywordSize == 2

\* Keywords: two that differ in letter case only, and another one.
ResolveKeywords == {<<"a">>, <<"A">>, <<"b">>}

WatchedKeyword == <<"a">>

\* The keywords a behaviour searches a source for: all of them in the source
\* it studies, the watched one in the other source.
KeywordsOf(source) ==
    IF source = kc.studied THEN ResolveKeywords ELSE {WatchedKeyword}

\* How a search ends: _scrape_search_results returns links or none, or
\* run_in_browser_loop raises a timeout or another exception; urlopen
\* returns items or none, or raises.
ScrapeOutcomes == {"results", "zero", "timeout", "error"}

GithubOutcomes == {"results", "zero", "error"}

\* The list a search that ended with the outcome hands back.
ResultsOf(keyword, outcome) ==
    IF outcome # "results" THEN "[]"
    ELSE IF Lower(keyword) = WatchedKeyword THEN "[a/a]" ELSE "[b/b]"

\* the cache key, had the keyword been used as typed
KeywordKeyRaw(keyword) == keyword

\* keyword.lower()
KeywordKey(keyword) == Lower(keyword)

KeywordExpired(link, now) ==
    IF kc.strict THEN link.expires < now ELSE link.expires <= now

\* _resolve_cache.get(keyword.lower()), _github_cache.get(keyword.lower())
KeywordCacheGet(source, keyword) ==
    LET key == KeywordKey(keyword)
        links == kc.links[source]
    IN  IF HasKey(links, key) /\ ~KeywordExpired(LinkOf(links, key), kc.now)
        THEN LinkOf(links, key).value
        ELSE "None"

\* _resolve_cache[keyword.lower()] = results, on the links of the source
KeywordCacheSet(source, keyword, results) ==
    LET key == KeywordKey(keyword)
        live == SelectSeq(kc.links[source],
                          LAMBDA l : ~KeywordExpired(l, kc.now))
        room == MakeRoom(live, key, kc.maxsize)
    IN  Append(Without(room, key),
               [key |-> key, value |-> results, expires |-> kc.now + kc.ttl])

\* if cached is not None
IsCached(cached) == cached # "None"

IsWatchedKeyword(keyword) == Lower(keyword) = WatchedKeyword

\* What a call for the watched keyword returned and did, and what the last
\* completed search of the source for it had returned, how long ago, with
\* how many stores for other keywords since.
KeywordCallRecord(source, keyword, result, nops, nrequests) ==
    IF IsWatchedKeyword(keyword)
    THEN [source |-> source, keyword |-> keyword, result |-> result,
          ops |-> nops, requests |-> nrequests,
          value |-> kc.lastDone[source].value,
          age |-> kc.now - kc.lastDone[source].time,
          others |-> kc.lastDone[source].others]
    ELSE kc.lastCall

\* The record of the last completed search after a search for the keyword
\* has stored its list.
KeywordDoneRecord(source, keyword, results) ==
    IF IsWatchedKeyword(keyword)
    THEN [keyword |-> keyword, value |-> results, time |-> kc.now,
          others |-> 0]
    ELSE IF kc.lastDone[source] = NoDone THEN NoDone
    ELSE [kc.lastDone[source] EXCEPT !.others = Min(@ + 1, kc.maxsize)]

\* time.monotonic() advances.
KeywordCacheTick ==
    /\ kc.now < MaxKeywordTime
    /\ kc' = [kc EXCEPT !.now = @ + 1]
    /\ UNCHANGED notKeywordCacheVars

\* _fetch_search_results(keyword): cache HIT
FetchSearchResultsHit(keyword) ==
    /\ keyword \in KeywordsOf("codewiki")
    /\ IsCached(KeywordCacheGet("codewiki", keyword))
    /\ kc' = [kc EXCEPT !.lastCall =
                 KeywordCallRecord("codewiki", keyword,
                                   KeywordCacheGet("codewiki", keyword),
                                   0, 0)]
    /\ UNCHANGED notKeywordCacheVars

\* _fetch_search_results(keyword): one browser operation, whose list (empty
\* after a timeout or an error) is stored and returned
FetchSearchResultsMiss(keyword, outcome) ==
    /\ keyword \in KeywordsOf("codewiki")
    /\ ~IsCached(KeywordCacheGet("codewiki", keyword))
    /\ LET results == ResultsOf(keyword, outcome) IN
       kc' = [kc EXCEPT
                !.links["codewiki"] =
                    KeywordCacheSet("codewiki", keyword, results),
                !.lastDone["codewiki"] =
                    KeywordDoneRecord("codewiki", keyword, results),
                !.lastCall =
                    KeywordCallRecord("codewiki", keyword, results, 1, 0)]
    /\ UNCHANGED notKeywordCacheVars

\* _github_search(keyword): GitHub cache HIT
GithubSearchHit(keyword) ==
    /\ keyword \in KeywordsOf("github")
    /\ IsCached(KeywordCacheGet("github", keyword))
    /\ kc' = [kc EXCEPT !.lastCall =
                 KeywordCallRecord("github", keyword,
                                   KeywordCacheGet("github", keyword), 0, 0)]
    /\ UNCHANGED notKeywordCacheVars

\* _github_search(keyword): one request to the GitHub API, whose list (empty
\* after an exception) is stored and returned
GithubSearchMiss(keyword, outcome) ==
    /\ keyword \in KeywordsOf("github")
    /\ ~IsCached(KeywordCacheGet("github", keyword))
    /\ LET results == ResultsOf(keyword, outcome) IN
       kc' = [kc EXCEPT
                !.links["github"] =
                    KeywordCacheSet("github", keyword, results),
                !.lastDone["github"] =
                    KeywordDoneRecord("github", keyword, results),
                !.lastCall =
                    KeywordCallRecord("github", keyword, results, 0, 1)]
    /\ UNCHANGED notKeywordCacheVars

InitKeywordCache ==
    /\ LoopAtRest
    /\ PagingAtRest
    /\ ReuseAtRest
    /\ FlushAtRest
    /\ ChatAtRest
    /\ BoundaryAtRest
    /\ SearchAtRest
    /\ WaitAtRest
    /\ InputAtRest
    /\ ResolverAtRest
    /\ LimiterAtRest
    /\ CacheAtRest
    /\ SearchCacheAtRest
    /\ ToolCallAtRest
    /\ ParseAtRest
    /\ TruncateAtRest
    /\ ContentsAtRest
    /\ StarsAtRest
    /\ CleanupAtRest
    /\ EnsureAtRest
    /\ \E maxsize \in 1..MaxKeywordSize, strict \in BOOLEAN,
          studied \in ResolveSources :
          kc = [NoKeywordCache EXCEPT !.ttl = MaxKeywordTtl,
                                      !.maxsize = maxsize,
                                      !.strict = strict,
                                      !.studied = studied]

NextKeywordCache ==
    \/ KeywordCacheTick
    \/ \E k \in ResolveKeywords : FetchSearchResultsHit(k)
    \/ \E k \in ResolveKeywords, o \in ScrapeOutcomes :
          FetchSearchResultsMiss(k, o)
    \/ \E k \in ResolveKeywords : GithubSearchHit(k)
    \/ \E k \in ResolveKeywords, o \in GithubOutcomes :
          GithubSearchMiss(k, o)

SpecKeywordCache == InitKeywordCache /\ [][NextKeywordCache]_vars

(***************************************************************************)
(* The tool boundary (tools/*.py): what each of the five tool handlers     *)
(* hands back to the host for every outcome of its stages.  A stage either *)
(* returns a value or raises; an envelope is a ToolResponse turned into    *)
(* text, and a call that lets an exception through has no envelope.        *)
(***************************************************************************)



BoundaryTools == {"codewiki_list_topics", "read_wiki_contents",
                  "read_wiki_structure", "codewiki_search_wiki",
                  "codewiki_request_indexing"}

\* What the caller typed as repo_url.
RepoInputs == {"url", "owner/repo", "keyword", "blank"}

\* The exceptions the stages raise: the builtin TimeoutError,
\* concurrent.futures.TimeoutError from future.result(timeout),
\* asyncio.TimeoutError from a wait inside a coroutine, and any other
\* exception of Playwright, urllib or the parser.
Exceptions == {"TimeoutError", "FutureTimeoutError", "AsyncioTimeoutError",
               "Error"}

Returns(value) == [raised |-> "none", value |-> value]

Raises(exc) == [raised |-> exc, value |-> "none"]

OutcomesOf(values) ==
    {Returns(v) : v \in values} \cup {Raises(e) : e \in Exceptions}

\* types.ErrorCode, with the two members the tools use beyond it
ErrorCodes == {"VALIDATION", "TIMEOUT", "DRIVER_ERROR", "NO_CONTENT",
               "INPUT_NOT_FOUND", "INTERNAL", "RETRY_EXHAUSTED",
               "RATE_LIMITED", "NOT_INDEXED"}

\* ToolResponse.success(...).to_text()
Success == [status |-> "ok", code |-> "none", raised |-> "none"]

\* ToolResponse.error(code, ...).to_text()
ErrorEnvelope(code) == [status |-> "error", code |-> code, raised |-> "none"]

\* The exception leaves the handler.
Propagated(exc) == [status |-> "none", code |-> "none", raised |-> exc]

\* except Exception, had it caught timeouts only
CaughtAsTimeoutOnly(exc) ==
    exc \in {"TimeoutError", "FutureTimeoutError", "AsyncioTimeoutError"}

\* except Exception
CaughtAsException(exc) == exc \in Exceptions

\* except TimeoutError: the three timeout classes are one class from
\* Python 3.11 on
CaughtAsBuiltinTimeout(exc) ==
    \/ exc = "TimeoutError"
    \/ tb.aliased /\ exc \in {"FutureTimeoutError", "AsyncioTimeoutError"}

\* except asyncio.TimeoutError
CaughtAsAsyncioTimeout(exc) ==
    \/ exc = "AsyncioTimeoutError"
    \/ tb.aliased /\ exc \in {"FutureTimeoutError", "TimeoutError"}

\* resolver._fetch_search_results on a cache miss: [] for any exception
BoundaryFetchSearchResults(scrape) ==
    IF scrape.raised = "none" THEN scrape
    ELSE IF CaughtAsAsyncioTimeout(scrape.raised)
            \/ CaughtAsException(scrape.raised)
    THEN Returns("zero")
    ELSE scrape

\* resolver._github_search on a cache miss: [] for any exception
BoundaryGithubSearch(request) ==
    IF request.raised = "none" THEN request
    ELSE IF CaughtAsException(request.raised) THEN Returns("zero")
    ELSE request

\* resolver.resolve_keyword_interactive: "None" when both sources are empty,
\* otherwise one of the results, picked by the heuristic when elicitation
\* raises or is declined
BoundaryResolveInteractive(scrape, request, elicit) ==
    LET primary == BoundaryFetchSearchResults(scrape)
        fallback == BoundaryGithubSearch(request)
        results == IF primary.raised # "none" THEN primary
                   ELSE IF primary.value # "zero" THEN primary
                   ELSE fallback
    IN  IF results.raised # "none" THEN results
        ELSE IF results.value = "zero" THEN Returns("None")
        ELSE IF results.value = "one" THEN Returns("owner/repo")
        ELSE IF elicit.raised # "none" /\ ~CaughtAsException(elicit.raised)
        THEN elicit
        ELSE Returns("owner/repo")

\* _helpers.pre_resolve_keyword(raw_input, ctx)
BoundaryPreResolve(raw_input, scrape, request, elicit) ==
    IF raw_input # "keyword" THEN Returns(raw_input)
    ELSE LET resolved == BoundaryResolveInteractive(scrape, request, elicit)
         IN  IF resolved.raised # "none" THEN resolved
             ELSE IF resolved.value = "None" THEN Returns(raw_input)
             ELSE resolved

\* RepoInput.normalize_repo_url: returns the URL or raises ValueError
BoundaryNormalize(repo) ==
    IF repo \in {"url", "owner/repo"} THEN Returns("url")
    ELSE Raises("Error")

\* validate_topics_input, validate_search_input, validate_contents_input:
\* the model, or a VALIDATION response for any exception
BoundaryValidate(repo) ==
    LET validated == BoundaryNormalize(repo) IN
    IF validated.raised = "none" THEN NoEnvelope
    ELSE IF CaughtAsException(validated.raised)
    THEN ErrorEnvelope("VALIDATION")
    ELSE Propagated(validated.raised)

\* try: fetch ... except TimeoutError ... except Exception, in
\* fetch_page_or_error and in read_wiki_structure
BoundaryFetchHandlers(fetch) ==
    IF fetch.raised = "none" THEN NoEnvelope
    ELSE IF CaughtAsBuiltinTimeout(fetch.raised) THEN ErrorEnvelope("TIMEOUT")
    ELSE IF CaughtAsException(fetch.raised) THEN ErrorEnvelope("INTERNAL")
    ELSE Propagated(fetch.raised)

\* _helpers.fetch_page_or_error after validation: NoEnvelope stands for the
\* page
BoundaryFetchPageOrError(admitted, fetch) ==
    IF ~admitted THEN ErrorEnvelope("RATE_LIMITED")
    ELSE IF fetch.raised # "none" THEN BoundaryFetchHandlers(fetch)
    ELSE IF fetch.value = "empty" THEN ErrorEnvelope("NO_CONTENT")
    ELSE IF fetch.value = "not-indexed" THEN ErrorEnvelope("NOT_INDEXED")
    ELSE NoEnvelope

\* search._run_search, request_indexing._run_request_indexing: the response
\* of the coroutine, TIMEOUT or INTERNAL
BoundaryRunInLoop(run) ==
    IF run.raised = "none"
    THEN IF run.value = "ok" THEN Success ELSE ErrorEnvelope(run.value)
    ELSE IF CaughtAsAsyncioTimeout(run.raised) THEN ErrorEnvelope("TIMEOUT")
    ELSE IF CaughtAsException(run.raised) THEN ErrorEnvelope("INTERNAL")
    ELSE Propagated(run.raised)

\* The handler returns the envelope, or the exception leaves it.
BoundaryDone(envelope, stage, outcome) ==
    [tb EXCEPT !.pc = "done", !.envelope = envelope,
               !.failed = IF outcome.raised # "none" THEN @ \cup {stage}
                          ELSE @]

BoundaryGoes(pc, stage, outcome) ==
    [tb EXCEPT !.pc = pc,
               !.failed = IF outcome.raised # "none" THEN @ \cup {stage}
                          ELSE @]

\* codewiki_list_topics, codewiki_search_wiki:
\* repo_url = pre_resolve_keyword(repo_url, ctx)
BoundaryPreResolveStep(scrape, request, elicit) ==
    /\ tb.pc = "pre_resolve_keyword"
    /\ LET resolved == BoundaryPreResolve(tb.input, scrape, request, elicit)
       IN  tb' = IF resolved.raised # "none"
                 THEN BoundaryDone(Propagated(resolved.raised), "resolve",
                                   resolved)
                 ELSE [tb EXCEPT !.pc = "validate", !.repo = resolved.value,
                                 !.failed =
                                     IF tb.input = "keyword"
                                        /\ (scrape.raised # "none"
                                            \/ elicit.raised # "none")
                                     THEN @ \cup {"resolve"} ELSE @]
    /\ UNCHANGED notBoundaryVars

\* validated = validate_..._input(repo_url, ...);
\* if isinstance(validated, ToolResponse): return validated.to_text()
BoundaryValidateStep ==
    /\ tb.pc = "validate"
    /\ tb' = IF BoundaryValidate(tb.repo) # NoEnvelope
             THEN BoundaryDone(BoundaryValidate(tb.repo), "validate",
                               BoundaryNormalize(tb.repo))
             ELSE [tb EXCEPT !.pc =
                      CASE tb.tool = "codewiki_list_topics" -> "topic_cache"
                        [] tb.tool = "read_wiki_contents" ->
                               "fetch_page_or_error"
                        [] tb.tool = "read_wiki_structure" -> "fetch_wiki_page"
                        [] tb.tool = "codewiki_search_wiki" ->
                               "check_rate_limit"
                        [] OTHER -> "run_request_indexing"]
    /\ UNCHANGED notBoundaryVars

\* codewiki_search_wiki: if not check_rate_limit(validated.repo_url)
BoundaryCheckRateLimit(admitted) ==
    /\ tb.pc = "check_rate_limit"
    /\ tb' = IF admitted THEN [tb EXCEPT !.pc = "search_cache"]
             ELSE BoundaryDone(ErrorEnvelope("RATE_LIMITED"), "rate_limit",
                               Returns(admitted))
    /\ UNCHANGED notBoundaryVars

\* cached = get_cached_topics(...), get_cached_search(...);
\* if cached is not None: return ToolResponse.success(...).to_text()
BoundaryCacheLookup(cached) ==
    /\ tb.pc \in {"topic_cache", "search_cache"}
    /\ tb' = IF cached THEN BoundaryDone(Success, "cache", Returns(cached))
             ELSE [tb EXCEPT !.pc = IF tb.pc = "topic_cache"
                                    THEN "fetch_page_or_error"
                                    ELSE "run_search",
                             !.attempt = 1]
    /\ UNCHANGED notBoundaryVars

\* codewiki_list_topics, read_wiki_contents:
\* result = fetch_page_or_error(...);
\* if isinstance(result, ToolResponse): return result.to_text()
BoundaryFetchPageOrErrorStep(admitted, fetch) ==
    /\ tb.pc = "fetch_page_or_error"
    /\ LET result == BoundaryFetchPageOrError(admitted, fetch)
           tried == IF admitted THEN fetch ELSE Returns("none")
       IN  tb' = IF result # NoEnvelope
                 THEN BoundaryDone(result, "fetch", tried)
                 ELSE IF tb.tool = "codewiki_list_topics"
                 THEN BoundaryDone(Success, "fetch", tried)
                 ELSE BoundaryGoes("get_section_by_title", "fetch", tried)
    /\ UNCHANGED notBoundaryVars

\* read_wiki_contents: the section, or NO_CONTENT when there is no section
\* of that title
BoundarySectionStep(found) ==
    /\ tb.pc = "get_section_by_title"
    /\ tb' = BoundaryDone(IF found THEN Success
                          ELSE ErrorEnvelope("NO_CONTENT"),
                          "section", Returns(found))
    /\ UNCHANGED notBoundaryVars

\* read_wiki_structure: try: page = fetch_wiki_page(...) ... with the two
\* except clauses
BoundaryStructureStep(fetch) ==
    /\ tb.pc = "fetch_wiki_page"
    /\ tb' = BoundaryDone(IF fetch.raised # "none"
                          THEN BoundaryFetchHandlers(fetch)
                          ELSE IF fetch.value = "empty"
                          THEN ErrorEnvelope("NO_CONTENT")
                          ELSE Success,
                          "fetch", fetch)
    /\ UNCHANGED notBoundaryVars

\* codewiki_search_wiki: one pass of the retry loop around _run_search
BoundarySearchAttempt(run) ==
    /\ tb.pc = "run_search"
    /\ LET result == BoundaryRunInLoop(run) IN
       tb' = IF result.raised # "none" \/ result.status = "ok"
             THEN BoundaryDone(result, "search", run)
             ELSE IF tb.attempt < MaxRetriesCfg
             THEN [tb EXCEPT !.attempt = @ + 1, !.last_error = result.code,
                             !.failed = IF run.raised # "none"
                                        THEN @ \cup {"search"} ELSE @]
             ELSE BoundaryDone(ErrorEnvelope("RETRY_EXHAUSTED"), "search",
                               run)
    /\ UNCHANGED notBoundaryVars

\* codewiki_request_indexing: result = _run_request_indexing(...);
\* return result.to_text()
BoundaryRequestIndexing(run) ==
    /\ tb.pc = "run_request_indexing"
    /\ tb' = BoundaryDone(BoundaryRunInLoop(run), "request", run)
    /\ UNCHANGED notBoundaryVars

BoundarySearchOutcomes == OutcomesOf({"results", "one", "zero"})

BoundaryElicitOutcomes == OutcomesOf({"accept", "decline"})

BoundaryFetchOutcomes == OutcomesOf({"page", "empty", "not-indexed"})

BoundaryRunOutcomes ==
    OutcomesOf({"ok", "DRIVER_ERROR", "INPUT_NOT_FOUND", "NO_CONTENT"})

InitBoundary ==
    /\ LoopAtRest
    /\ PagingAtRest
    /\ ReuseAtRest
    /\ FlushAtRest
    /\ ChatAtRest
    /\ SearchAtRest
    /\ WaitAtRest
    /\ InputAtRest
    /\ ResolverAtRest
    /\ LimiterAtRest
    /\ CacheAtRest
    /\ SearchCacheAtRest
    /\ ToolCallAtRest
    /\ ParseAtRest
    /\ TruncateAtRest
    /\ ContentsAtRest
    /\ StarsAtRest
    /\ CleanupAtRest
    /\ EnsureAtRest
    /\ KeywordCacheAtRest
    /\ \E t \in BoundaryTools, input \in RepoInputs, aliased \in BOOLEAN :
          tb = [NoBoundary EXCEPT
                  !.pc = IF t \in {"codewiki_list_topics",
                                   "codewiki_search_wiki"}
                         THEN "pre_resolve_keyword" ELSE "validate",
                  !.tool = t, !.input = input, !.repo = input,
                  !.aliased = aliased]

NextBoundary ==
    \/ \E scrape \in BoundarySearchOutcomes, request \in BoundarySearchOutcomes,
          elicit \in BoundaryElicitOutcomes :
          BoundaryPreResolveStep(scrape, request, elicit)
    \/ BoundaryValidateStep
    \/ \E admitted \in BOOLEAN : BoundaryCheckRateLimit(admitted)
    \/ \E cached \in BOOLEAN : BoundaryCacheLookup(cached)
    \/ \E admitted \in BOOLEAN, fetch \in BoundaryFetchOutcomes :
          BoundaryFetchPageOrErrorStep(admitted, fetch)
    \/ \E found \in BOOLEAN : BoundarySectionStep(found)
    \/ \E fetch \in BoundaryFetchOutcomes : BoundaryStructureStep(fetch)
    \/ \E run \in BoundaryRunOutcomes : BoundarySearchAttempt(run)
    \/ \E run \in BoundaryRunOutcomes : BoundaryRequestIndexing(run)

SpecBoundary == InitBoundary /\ [][NextBoundary]_vars

(***************************************************************************)
(* One chat sequence on a page (tools/search.py): _ensure_chat_open,       *)
(* _find_chat_input, the typing, _submit_query and the wait for the        *)
(* response, as _search_impl and _search_fresh_context run them.  The log  *)
(* holds what was done to the page, in order.                              *)
(***************************************************************************)

\* len(config.CHAT_INPUT_SELECTORS)
NInputSelectors == 5

\* len(config.SUBMIT_BUTTON_SELECTORS)
NSubmitSelectors == 4

\* locator.is_visible(): True, False, or an exception
VisibleOutcomes == {"visible", "hidden", "raise"}

\* One pass of _submit_query's loop up to the click: the control is not
\* visible, is_visible raises, the control is visible and disabled, visible
\* and enabled, or is_disabled raises on the visible control.
SubmitProbeOutcomes == {"hidden", "raise", "visible-disabled",
                        "visible-enabled", "visible-raise"}

\* An awaited page action returns or raises.
ActOutcomes == {"ok", "raise"}

ChatFails(code) == [ch EXCEPT !.pc = "done", !.res = code]

\* if not chat_visible: return INPUT_NOT_FOUND, had the test been left out
PanelCheckSkipped(chat_visible) == "find_chat_input"

\* chat_visible = await _ensure_chat_open(page);
\* if not chat_visible: return ToolResponse.error(INPUT_NOT_FOUND, ...)
PanelCheck(chat_visible) ==
    IF chat_visible THEN "find_chat_input" ELSE "INPUT_NOT_FOUND"

AfterEnsureChatOpen(chat_visible) ==
    IF PanelCheck(chat_visible) = "INPUT_NOT_FOUND"
    THEN ChatFails("INPUT_NOT_FOUND")
    ELSE [ch EXCEPT !.pc = "find_chat_input", !.sel = 1,
                    !.panel = chat_visible]

\* if await btn.is_disabled(): return, had the control been clicked anyway
ProbeVerdictAlwaysClicks(out) == "submit_click"

\* if await btn.is_disabled(): return; otherwise await btn.click()
ProbeVerdict(out) ==
    IF out = "visible-disabled" THEN "wait_for_response" ELSE "submit_click"

\* except Exception: continue, and the end of the loop of _submit_query
SubmitLoopContinues(sel) ==
    IF sel < NSubmitSelectors THEN "submit_probe" ELSE "wait_for_response"

\* _ensure_chat_open: chat.is_visible() on the open panel
ChatAlreadyOpen(out) ==
    /\ ch.pc = "ensure_chat_open"
    /\ ch' = IF out = "visible" THEN AfterEnsureChatOpen(TRUE)
             ELSE [ch EXCEPT !.pc = "toggle_visible"]
    /\ UNCHANGED notChatVars

\* _ensure_chat_open: toggle.is_visible(); an invisible toggle or an
\* exception ends it with False
ChatToggleVisible(out) ==
    /\ ch.pc = "toggle_visible"
    /\ ch' = IF out = "visible" THEN [ch EXCEPT !.pc = "toggle_click"]
             ELSE AfterEnsureChatOpen(FALSE)
    /\ UNCHANGED notChatVars

\* _ensure_chat_open: toggle.click()
ChatToggleClick(out) ==
    /\ ch.pc = "toggle_click"
    /\ ch' = IF out = "ok"
             THEN [ch EXCEPT !.pc = "open_after_toggle",
                             !.log = Append(@, "toggle")]
             ELSE AfterEnsureChatOpen(FALSE)
    /\ UNCHANGED notChatVars

\* _ensure_chat_open: chat.is_visible() after the click
ChatOpenAfterToggle(out) ==
    /\ ch.pc = "open_after_toggle"
    /\ ch' = AfterEnsureChatOpen(out = "visible")
    /\ UNCHANGED notChatVars

\* _find_chat_input: the next selector; None after the last one, and
\* INPUT_NOT_FOUND from the caller
FindChatInput(out) ==
    /\ ch.pc = "find_chat_input"
    /\ ch' = IF out = "visible"
             THEN [ch EXCEPT !.pc = "type", !.input = ch.sel]
             ELSE IF ch.sel < NInputSelectors
             THEN [ch EXCEPT !.sel = @ + 1]
             ELSE ChatFails("INPUT_NOT_FOUND")
    /\ UNCHANGED notChatVars

\* human_click, fill(""), human_type(chat_input, inp.query) and
\* _wait_for_submit_enabled, which swallows its exceptions
TypeQuery(out) ==
    /\ ch.pc = "type"
    /\ ch' = IF out = "ok"
             THEN [ch EXCEPT !.pc = "press_enter", !.log = Append(@, "type")]
             ELSE ChatFails("DRIVER_ERROR")
    /\ UNCHANGED notChatVars

\* _submit_query: await chat_input.press("Enter")
PressEnter(out) ==
    /\ ch.pc = "press_enter"
    /\ ch' = IF out = "ok"
             THEN [ch EXCEPT !.pc = "submit_probe", !.sel = 1,
                             !.enters = @ + 1, !.log = Append(@, "enter")]
             ELSE ChatFails("DRIVER_ERROR")
    /\ UNCHANGED notChatVars

\* _submit_query: one selector of the loop, up to the click
SubmitProbe(out) ==
    /\ ch.pc = "submit_probe"
    /\ LET seen == IF ch.first = NoFirstVisible
                      /\ out \in {"visible-disabled", "visible-enabled",
                                  "visible-raise"}
                   THEN [selector |-> ch.sel, state |-> out]
                   ELSE ch.first
       IN  ch' = CASE out \in {"visible-disabled", "visible-enabled"} ->
                        [ch EXCEPT !.pc = ProbeVerdict(out), !.first = seen]
                   [] out = "hidden" ->
                        [ch EXCEPT !.pc = SubmitLoopContinues(ch.sel),
                                   !.sel = @ + 1]
                   [] OTHER ->
                        [ch EXCEPT !.pc = SubmitLoopContinues(ch.sel),
                                   !.sel = @ + 1, !.first = seen,
                                   !.raised = TRUE]
    /\ UNCHANGED notChatVars

\* _submit_query: await btn.click(), then return; an exception goes on to
\* the next selector
SubmitClick(out) ==
    /\ ch.pc = "submit_click"
    /\ ch' = IF out = "ok"
             THEN [ch EXCEPT !.pc = "wait_for_response",
                             !.clickCalls = @ + 1, !.clicks = @ + 1,
                             !.clicked = ch.sel,
                             !.log = Append(@, "click")]
             ELSE [ch EXCEPT !.pc = SubmitLoopContinues(ch.sel),
                             !.sel = @ + 1, !.clickCalls = @ + 1,
                             !.raised = TRUE]
    /\ UNCHANGED notChatVars

\* response_text = await _wait_for_response(page);
\* if not response_text: return NO_CONTENT
ChatResponse(out) ==
    /\ ch.pc = "wait_for_response"
    /\ ch' = [ch EXCEPT !.pc = "done", !.log = Append(@, "poll"),
                        !.res = IF out = "text" THEN "ok" ELSE "NO_CONTENT"]
    /\ UNCHANGED notChatVars

InitChat ==
    /\ LoopAtRest
    /\ PagingAtRest
    /\ ReuseAtRest
    /\ FlushAtRest
    /\ SearchAtRest
    /\ WaitAtRest
    /\ InputAtRest
    /\ ResolverAtRest
    /\ LimiterAtRest
    /\ CacheAtRest
    /\ SearchCacheAtRest
    /\ ToolCallAtRest
    /\ ParseAtRest
    /\ TruncateAtRest
    /\ ContentsAtRest
    /\ StarsAtRest
    /\ CleanupAtRest
    /\ EnsureAtRest
    /\ KeywordCacheAtRest
    /\ BoundaryAtRest
    /\ ch = [NoChat EXCEPT !.pc = "ensure_chat_open"]

NextChat ==
    \/ \E out \in VisibleOutcomes : ChatAlreadyOpen(out)
    \/ \E out \in VisibleOutcomes : ChatToggleVisible(out)
    \/ \E out \in ActOutcomes : ChatToggleClick(out)
    \/ \E out \in VisibleOutcomes : ChatOpenAfterToggle(out)
    \/ \E out \in VisibleOutcomes : FindChatInput(out)
    \/ \E out \in ActOutcomes : TypeQuery(out)
    \/ \E out \in ActOutcomes : PressEnter(out)
    \/ \E out \in SubmitProbeOutcomes : SubmitProbe(out)
    \/ \E out \in ActOutcomes : SubmitClick(out)
    \/ \E out \in {"text", "empty"} : ChatResponse(out)

SpecChat == InitChat /\ [][NextChat]_vars

(***************************************************************************)
(* The general-purpose helpers of cache.py, invalidate and clear_cache,    *)
(* over the HTML page cache, the parsed cache and the search cache.  Each  *)
(* cache holds fewer keys than its maxsize, so nothing is evicted for      *)
(* room; invalidated is what the caches held before an invalidate call     *)
(* that was the last step, cleared says that nothing was stored since      *)
(* clear_cache.                                                            *)
(***************************************************************************)

MaxFlushTime == 2

MaxFlushTtl == 2

\* TTLCache.__contains__ / TTLCache.get: an entry counts until it expires.
Live(entry, now) == entry # NoEntry /\ now < entry.expires

\* TTLCache.get(key)
FlushLookup(entries, key, now) ==
    IF Live(entries[key], now) THEN entries[key].value ELSE "None"

\* TTLCache.__setitem__
Stored(entries, key, value, now) ==
    [entries EXCEPT ![key] = [value |-> value, expires |-> now + MaxFlushTtl]]

\* _page_cache.pop(url, None), had it been _page_cache.clear()
PoppedAll(entries, key, now) == [k \in DOMAIN entries |-> NoEntry]

\* _page_cache.pop(url, None): Cache.pop deletes the key when the cache
\* contains it, and an expired key is not contained.
Popped(entries, key, now) ==
    IF Live(entries[key], now) THEN [entries EXCEPT ![key] = NoEntry]
    ELSE entries

\* TTLCache.clear()
Cleared(entries) == [k \in DOMAIN entries |-> NoEntry]

\* time.monotonic() advances.
FlushTick ==
    /\ fl.now < MaxFlushTime
    /\ fl' = [fl EXCEPT !.now = @ + 1, !.invalidated = NoInvalidate]
    /\ UNCHANGED notFlushVars

\* set_cached_page(url, html)
FlushSetPage(url) ==
    /\ fl' = [fl EXCEPT !.page = Stored(@, url, "html", fl.now),
                        !.invalidated = NoInvalidate, !.cleared = FALSE]
    /\ UNCHANGED notFlushVars

\* set_cached_wiki_page(repo_url, page)
FlushSetParsed(repo_url) ==
    /\ fl' = [fl EXCEPT !.parsed = Stored(@, repo_url, "page", fl.now),
                        !.invalidated = NoInvalidate, !.cleared = FALSE]
    /\ UNCHANGED notFlushVars

\* set_cached_search(repo_url, query, response)
FlushSetSearch(key) ==
    /\ fl' = [fl EXCEPT !.search = Stored(@, key, "response", fl.now),
                        !.invalidated = NoInvalidate, !.cleared = FALSE]
    /\ UNCHANGED notFlushVars

\* get_cached_page(url)
FlushGetPage(url) ==
    /\ fl' = [fl EXCEPT !.lastGet =
                 [cache |-> "page", key |-> url,
                  result |-> FlushLookup(fl.page, url, fl.now)],
                        !.invalidated = NoInvalidate]
    /\ UNCHANGED notFlushVars

\* get_cached_wiki_page(repo_url)
FlushGetParsed(repo_url) ==
    /\ fl' = [fl EXCEPT !.lastGet =
                 [cache |-> "parsed", key |-> repo_url,
                  result |-> FlushLookup(fl.parsed, repo_url, fl.now)],
                        !.invalidated = NoInvalidate]
    /\ UNCHANGED notFlushVars

\* get_cached_search(repo_url, query)
FlushGetSearch(key) ==
    /\ fl' = [fl EXCEPT !.lastGet =
                 [cache |-> "search", key |-> key,
                  result |-> FlushLookup(fl.search, key, fl.now)],
                        !.invalidated = NoInvalidate]
    /\ UNCHANGED notFlushVars

\* invalidate(url)
invalidate(url) ==
    /\ fl' = [fl EXCEPT !.page = Popped(@, url, fl.now),
                        !.invalidated =
                            [url |-> url, page |-> fl.page,
                             parsed |-> fl.parsed, search |-> fl.search]]
    /\ UNCHANGED notFlushVars

\* clear_cache()
clear_cache ==
    /\ fl' = [fl EXCEPT !.page = Cleared(@), !.parsed = Cleared(@),
                        !.search = Cleared(@),
                        !.invalidated = NoInvalidate, !.cleared = TRUE,
                        !.lastGet = NoFlushGet]
    /\ UNCHANGED notFlushVars

InitFlush ==
    /\ LoopAtRest
    /\ PagingAtRest
    /\ ReuseAtRest
    /\ SearchAtRest
    /\ WaitAtRest
    /\ InputAtRest
    /\ ResolverAtRest
    /\ LimiterAtRest
    /\ CacheAtRest
    /\ SearchCacheAtRest
    /\ ToolCallAtRest
    /\ ParseAtRest
    /\ TruncateAtRest
    /\ ContentsAtRest
    /\ StarsAtRest
    /\ CleanupAtRest
    /\ EnsureAtRest
    /\ KeywordCacheAtRest
    /\ BoundaryAtRest
    /\ ChatAtRest
    /\ fl = NoFlush

NextFlush ==
    \/ FlushTick
    \/ \E url \in FlushUrls : FlushSetPage(url)
    \/ \E repo_url \in FlushRepos : FlushSetParsed(repo_url)
    \/ \E key \in FlushSearchKeys : FlushSetSearch(key)
    \/ \E url \in FlushUrls : FlushGetPage(url)
    \/ \E repo_url \in FlushRepos : FlushGetParsed(repo_url)
    \/ \E key \in FlushSearchKeys : FlushGetSearch(key)
    \/ \E url \in FlushUrls : invalidate(url)
    \/ clear_cache

SpecFlush == InitFlush /\ [][NextFlush]_vars

(***************************************************************************)
(* _wait_for_response on the page of a session (tools/search.py), with the *)
(* thread of the page: after a query was submitted on a fresh page the     *)
(* thread holds no response until the new one is rendered; on the page of  *)
(* a reused pooled session it still holds the response of the earlier      *)
(* exchange.  locator(sel).last is the latest response element there is.   *)
(* The session pool is not part of the sources at hand; that a reused      *)
(* session comes back without a new page render follows its description.   *)
(***************************************************************************)

\* The earlier exchange's response, longer than the threshold.
OldResponseLen == NEW_CONTENT_THRESHOLD_CHARS + 1

\* page.locator(sel).last: the latest response element of the thread.
LastResponse(reused, rendered, new_len) ==
    IF rendered THEN [of |-> "new", len |-> new_len]
    ELSE IF reused THEN [of |-> "old", len |-> OldResponseLen]
    ELSE NoThreadText

\* One pass over RESPONSE_ELEMENT_SELECTORS: the text of the latest element
\* when it is visible, nothing when it is not or the probe raises.
ThreadRead(visible) ==
    IF visible THEN LastResponse(ru.reused, ru.rendered, ru.new_len)
    ELSE NoThreadText

\* The site renders the element of the new response, streams text into it
\* and re-renders it.
ResponseChanges(n) ==
    /\ ru.pc \in {"p1", "p2", "p3"}
    /\ n # ru.new_len \/ ~ru.rendered
    /\ ru' = [ru EXCEPT !.rendered = TRUE, !.new_len = n]
    /\ UNCHANGED notReuseVars

\* RESPONSE_WAIT_TIMEOUT_SECONDS elapse.
ReuseDeadlinePasses ==
    /\ ru.pc \in {"p1", "p2"}
    /\ ~ru.expired
    /\ ru' = [ru EXCEPT !.expired = TRUE]
    /\ UNCHANGED notReuseVars

\* Phase 1: the empty-state placeholder is gone from a thread that holds a
\* message; on a fresh page it goes once the exchange shows.
ReusePhase1Poll(gone) ==
    /\ ru.pc = "p1"
    /\ (ru.reused \/ ru.rendered) => gone
    /\ ru' = IF ru.expired \/ gone THEN [ru EXCEPT !.pc = "p2"] ELSE ru
    /\ UNCHANGED notReuseVars

\* Phase 2: the first text longer than the threshold is taken as the content.
ReusePhase2Poll(visible) ==
    /\ ru.pc = "p2"
    /\ LET r == ThreadRead(visible) IN
       IF ru.expired
       THEN ru' = [ru EXCEPT !.pc = "ret", !.ret = NoThreadText]
       ELSE IF r # NoThreadText /\ r.len > NEW_CONTENT_THRESHOLD_CHARS
            THEN ru' = [ru EXCEPT !.pc = "p3", !.content = r,
                                  !.last_len = r.len]
            ELSE ru' = ru
    /\ UNCHANGED notReuseVars

\* Phase 3, one iteration: re-read the latest element, stop when the length
\* is unchanged.
ReusePhase3Poll(visible) ==
    /\ ru.pc = "p3"
    /\ ru.polls < StablePolls
    /\ LET r == ThreadRead(visible)
           c == IF r = NoThreadText THEN ru.content ELSE r
       IN  ru' = [ru EXCEPT !.content = c, !.polls = @ + 1,
                            !.last_len = c.len,
                            !.pc = IF Stable(c, ru.last_len) THEN "ret"
                                   ELSE "p3",
                            !.ret = IF Stable(c, ru.last_len) THEN c ELSE @]
    /\ UNCHANGED notReuseVars

\* Phase 3: all iterations done; the last text read is returned.
ReusePhase3End ==
    /\ ru.pc = "p3"
    /\ ru.polls = StablePolls
    /\ ru' = [ru EXCEPT !.pc = "ret", !.ret = ru.content]
    /\ UNCHANGED notReuseVars

InitReuse ==
    /\ LoopAtRest
    /\ PagingAtRest
    /\ SearchAtRest
    /\ WaitAtRest
    /\ InputAtRest
    /\ ResolverAtRest
    /\ LimiterAtRest
    /\ CacheAtRest
    /\ SearchCacheAtRest
    /\ ToolCallAtRest
    /\ ParseAtRest
    /\ TruncateAtRest
    /\ ContentsAtRest
    /\ StarsAtRest
    /\ CleanupAtRest
    /\ EnsureAtRest
    /\ KeywordCacheAtRest
    /\ BoundaryAtRest
    /\ ChatAtRest
    /\ FlushAtRest
    /\ \E reused \in BOOLEAN :
          ru = [NoReuse EXCEPT !.pc = "p1", !.reused = reused]

NextReuse ==
    \/ \E n \in TextLens : ResponseChanges(n)
    \/ ReuseDeadlinePasses
    \/ \E gone \in BOOLEAN : ReusePhase1Poll(gone)
    \/ \E visible \in BOOLEAN : ReusePhase2Poll(visible)
    \/ \E visible \in BOOLEAN : ReusePhase3Poll(visible)
    \/ ReusePhase3End

SpecReuse == InitReuse /\ [][NextReuse]_vars

(***************************************************************************)
(* A caller pages through a document with read_wiki_contents               *)
(* (tools/contents.py): it starts at offset 0, keeps the limit, and calls  *)
(* again with the offset that the continuation hint of the last response   *)
(* names, until a response carries no hint.  visited holds the sections    *)
(* the responses carried, in order.                                        *)
(***************************************************************************)

\* The sections the response text carries: heading line and content.
SectionsIn(data, total) ==
    {i \in 1..total :
        Contains(data, <<"#", "#", " ", SectionTitles[i], "\n", "\n",
                         SectionContents[i]>>)}

\* The offsets the response text names as the place to continue.
HintsIn(data) ==
    {k \in 1..Len(Digits) :
        Contains(data, <<"o", "f", "f", "s", "e", "t", "=", Digits[k]>>)}

\* The members of a set of numbers, in ascending order.
RECURSIVE Ascending(_)
Ascending(S) ==
    IF S = {} THEN <<>>
    ELSE LET m == CHOOSE x \in S : \A y \in S : x <= y
         IN  <<m>> \o Ascending(S \ {m})

\* One read_wiki_contents call of the caller, and what it does with the
\* response.
PagingCall ==
    /\ pa.pc = "call"
    /\ LET data == RenderContents(pa.total, pa.offset, pa.limit)
           out == truncate_response(data, pa.max_chars)
           hints == HintsIn(out.text)
       IN  pa' = [pa EXCEPT
                    !.visited = @ \o Ascending(SectionsIn(out.text, pa.total)),
                    !.calls = @ + 1,
                    !.truncated = @ \/ out.truncated,
                    !.offset = IF hints = {} THEN @
                               ELSE CHOOSE k \in hints : TRUE,
                    !.pc = IF hints = {} THEN "done" ELSE "call"]
    /\ UNCHANGED notPagingVars

InitPaging ==
    /\ LoopAtRest
    /\ SearchAtRest
    /\ WaitAtRest
    /\ InputAtRest
    /\ ResolverAtRest
    /\ LimiterAtRest
    /\ CacheAtRest
    /\ SearchCacheAtRest
    /\ ToolCallAtRest
    /\ ParseAtRest
    /\ TruncateAtRest
    /\ ContentsAtRest
    /\ StarsAtRest
    /\ CleanupAtRest
    /\ EnsureAtRest
    /\ KeywordCacheAtRest
    /\ BoundaryAtRest
    /\ ChatAtRest
    /\ FlushAtRest
    /\ ReuseAtRest
    /\ \E total \in 0..MaxSections, limit \in 1..MaxLimit,
          max_chars \in {0, SmallResponseBudget, LargeResponseBudget} :
          pa = [NoPaging EXCEPT !.pc = "call", !.total = total,
                                !.limit = limit, !.max_chars = max_chars]

NextPaging == PagingCall

SpecPaging == InitPaging /\ [][NextPaging]_vars

(***************************************************************************)
(* Claims about the browser loop.                                          *)
(***************************************************************************)

\* An operation is in progress: started on the loop and not finished.
InProgress(t) == ops[t].pc \notin {"none", "queued", "done"}

\* C1 (as stated): operations are serialized, a later-submitted operation takes
\* no step while an earlier one is in progress; tasks start in enqueue order, so
\* this says that no two operations are ever in progress at once.
C1_Serialized == Cardinality({t \in Threads : InProgress(t)}) <= 1

\* C1 (amended): the loop starts the operations in the order they were enqueued
\* and runs a step of one operation at a time; a later operation may still take
\* steps while an earlier one is suspended.
C1_FifoStart ==
    [][/\ \A t \in Threads :
            (ops[t].pc = "queued" /\ ops'[t].pc # "queued")
                => (loopQueue # <<>> /\ t = Head(loopQueue))
       /\ Cardinality({t \in Threads : ops'[t] # ops[t]}) <= 1]_vars

\* Two operations enqueued together have both been started and overlap.
C1_Witness ==
    \E a, b \in Threads :
        /\ a # b
        /\ ops[a].pc \in {"goto", "wait", "content"}
        /\ ops[b].pc \in {"new_context", "new_page", "goto"}

\* C2: a browser is launched only when no connected browser exists, so at most
\* one launched browser is connected at any time.
C2_SingleBrowser == Cardinality(connected) <= 1

\* C3: when an operation has returned or raised, the browsing context it created
\* is closed.
C3_NoLeak == \A t \in Threads : ops[t].pc = "done" => ~ops[t].ctx

\* C4: run_in_browser_loop returns only once the operation has completed; when
\* the hard timeout elapses first it raises and leaves the operation as it is,
\* unfinished and free to take further steps.
C4_BlocksUntilDoneOrTimeout ==
    /\ [](\A t \in Threads : callers[t] = "returned" => ops[t].pc = "done")
    /\ [][\A t \in Threads :
            (callers[t] = "waiting" /\ callers'[t] = "timedout")
                => (ops'[t] = ops[t] /\ ops[t].pc # "done")]_vars

\* A caller has timed out and its operation went on to complete afterwards.
C4_Witness ==
    \E t \in Threads :
        callers[t] = "timedout" /\ ops[t].pc = "done" /\ ops[t].res = "ok"

(***************************************************************************)
(* Claims about the search tool.                                           *)
(***************************************************************************)

\* C5: at most MAX_RETRIES attempts run and none after a success; the delay is
\* taken between attempts only; when all fail the final attempt's envelope is
\* returned, re-tagged RETRY_EXHAUSTED, with attempt = max_attempts = MAX_RETRIES.
C5_RetryPolicy ==
    LET n == Len(tool.codes) IN
    /\ n <= maxRetries
    /\ \A i \in 1..(n - 1) : tool.codes[i] # "ok"
    /\ tool.sleeps <= n
    /\ tool.pc = "done" /\ n >= 1 =>
         /\ tool.sleeps = n - 1
         /\ tool.result.msg = n
         /\ tool.result.attempt = n
         /\ tool.result.max_attempts = maxRetries
         /\ tool.codes[n] = "ok" => tool.result.status = "ok"
         /\ tool.codes[n] # "ok" =>
               /\ n = maxRetries
               /\ tool.result.status = "error"
               /\ tool.result.code = "RETRY_EXHAUSTED"

\* Two attempts failed with different errors and only the second was surfaced.
C5_Witness ==
    /\ tool.pc = "done"
    /\ tool.codes = <<"TIMEOUT", "NO_CONTENT">>
    /\ tool.result.code = "RETRY_EXHAUSTED"
    /\ tool.result.msg = 2
    /\ tool.sleeps = 1

\* C6: phase 3 goes on only while consecutive reads differ in length, returns
\* the text just read once two lengths agree, and returns the last text read
\* when the length still changes at the final iteration.
C6_StabilityPolling ==
    /\ wait.polls <= StablePolls
    /\ wait.pc = "p3" /\ wait.polls >= 1 => wait.content.len # wait.prev_len
    /\ wait.pc = "ret" /\ wait.polls >= 1 =>
         /\ wait.ret = wait.content
         /\ wait.polls < StablePolls => wait.content.len = wait.prev_len

\* The length changed at every one of the iterations and the text of the last
\* read is what was returned.
C6_Witness ==
    /\ wait.pc = "ret"
    /\ wait.polls = StablePolls
    /\ wait.content.len # wait.prev_len
    /\ wait.ret = wait.content
    /\ wait.ret.len > 0

\* C7: a pooled session is released once per acquisition; after a phase threw or
\* the panel or input was not found it is released as broken and evicted, never
\* handed out again; it goes back to the pool only when no phase failed.
C7_ReleaseDiscipline ==
    \A a \in Attempts :
        LET o == impl[a] IN
        /\ o.released <= 1
        /\ o.released = 1 => o.entry # 0
        /\ o.pc = "done" /\ o.entry # 0 => o.released = 1
        /\ o.released = 1 /\ o.failed # "none" =>
              o.relBroken /\ sessions[o.entry] = "evicted"
        /\ o.released = 1 /\ ~o.relBroken => o.failed = "none"
        /\ o.entry # 0 /\ o.released = 0 => sessions[o.entry] = "inuse"

\* A session was evicted after a phase threw and a later attempt got another.
C7_Witness ==
    \E a, b \in Attempts :
        /\ a < b
        /\ impl[a].pc = "done" /\ impl[a].failed = "threw" /\ impl[a].relBroken
        /\ sessions[impl[a].entry] = "evicted"
        /\ impl[b].entry \notin {0, impl[a].entry}

\* C8: when a phase throws on a pooled session, the request is run again in a
\* one-off fresh context instead of returning the failure.
C8_FallsBack ==
    \A a \in Attempts :
        (impl[a].pc = "done" /\ impl[a].entry # 0 /\ impl[a].failed = "threw")
            => impl[a].fresh

(***************************************************************************)
(* Claims about repository identifiers.                                    *)
(***************************************************************************)

\* C9: whenever the identifier a tool was called with is malformed (RepoInput
\* rejects it: empty, no slash and not a URL, or any other invalid shape),
\* the call issues no browser operation and no network request, and it ends
\* with a VALIDATION envelope.
C9_ValidationWithoutIo ==
    (inp.tool # "none" /\ ~normalize_repo_url(inp.input).ok) =>
        /\ inp.io = 0
        /\ inp.pc = "done" => inp.code = "VALIDATION"

\* The owner/repo an accepted github.com URL names: its first two path
\* segments.
RepoOf(value) ==
    LET v == Strip(value)
        r == SubSeq(v, Len(IF StartsWith(v, HttpsGithub) THEN HttpsGithub
                               ELSE HttpGithub) + 1, Len(v))
        k == CHOOSE i \in SlashAt(r) : \A j \in SlashAt(r) : i <= j
        rest == {j \in SlashAt(r) : j > k}
        e == IF rest = {} THEN Len(r) + 1
             ELSE CHOOSE i \in rest : \A j \in rest : i <= j
    IN  SubSeq(r, 1, e - 1)

IsGithubUrl(value) ==
    /\ StartsWith(Strip(value), HttpsGithub) \/ StartsWith(Strip(value), HttpGithub)
    /\ MatchRepoUrl(Strip(value))

\* C10: every accepted fully qualified github.com URL is normalized to the
\* same identifier as the owner/repo shorthand of the repository it names.
C10_UrlAndShorthandAgree ==
    (inp.normalized # <<>> /\ IsGithubUrl(inp.input)) =>
        inp.normalized = normalize_repo_url(RepoOf(inp.input)).url

(***************************************************************************)
(* Claims about the keyword resolver.                                      *)
(***************************************************************************)

\* The keyword as the rules compare it, and the rules of the heuristic.
Kw == Strip(Lower(rk.keyword))

CanonicalAt(i) ==
    Lower(rk.results[i].owner) = Kw /\ Lower(rk.results[i].repo) = Kw

HasCanonical == \E i \in 1..Len(rk.results) : CanonicalAt(i)

RuleMatches(k, i) ==
    CASE k = 1 -> CanonicalAt(i)
      [] k = 2 -> Lower(rk.results[i].repo) = Kw
      [] k = 3 -> Contains(Lower(rk.results[i].owner), Kw)
      [] k = 4 -> Contains(Lower(rk.results[i].repo), Kw)
      [] OTHER -> TRUE

RuleHits(k) == {i \in 1..Len(rk.results) : RuleMatches(k, i)}

WinningRule == CHOOSE k \in 1..5 : RuleHits(k) # {} /\ \A j \in 1..(k - 1) : RuleHits(j) = {}

Interactive == rk.mode = "interactive" /\ rk.pc \in {"select", "elicit", "heuristic", "done"}

\* C11: resolve_keyword_interactive never prompts when there is exactly one
\* result or a canonical match, and returns that entry (the only result, or
\* an entry whose owner and repo both equal the keyword up to case).
C11_AutoSelectNeverPrompts ==
    (Interactive /\ (Len(rk.results) = 1 \/ HasCanonical)) =>
        /\ rk.prompts = 0
        /\ rk.pc \notin {"elicit", "heuristic"}
        /\ rk.pc = "done" =>
              IF Len(rk.results) = 1
              THEN rk.selected = full_name(rk.results[1])
              ELSE \E i \in 1..Len(rk.results) :
                      CanonicalAt(i) /\ rk.selected = full_name(rk.results[i])

\* C11 witness: two results, one canonical and not the first, a context to
\* prompt through, and the canonical one returned without a prompt.
C11_Witness ==
    /\ rk.pc = "done" /\ rk.mode = "interactive" /\ rk.ctx
    /\ Len(rk.results) = 2 /\ CanonicalAt(2) /\ ~CanonicalAt(1)
    /\ rk.via = "canonical" /\ rk.prompts = 0
    /\ rk.selected = full_name(rk.results[2])

C13_FallsThroughToHeuristic ==
    (/\ rk.pc = "done" /\ rk.mode = "interactive"
     /\ Len(rk.results) > 1 /\ ~HasCanonical
     /\ rk.answer # "accept") =>
        /\ rk.via = "heuristic"
        /\ rk.selected = full_name(select_best_match(rk.keyword, rk.results))

\* C13 witness: a declined prompt whose heuristic pick is not the first
\* result.
C13_Witness ==
    /\ rk.pc = "done" /\ rk.mode = "interactive"
    /\ rk.answer = "decline" /\ rk.prompts = 1
    /\ Len(rk.results) > 1 /\ ~HasCanonical
    /\ rk.selected = full_name(select_best_match(rk.keyword, rk.results))
    /\ rk.selected # full_name(rk.results[1])

\* C14: a finished keyword resolution has consulted the code-hosting search
\* API exactly when the wiki's search gave no result.
C14_FallbackIff ==
    rk.pc = "done" => (rk.consulted > 0 <=> rk.wiki = <<>>)

(***************************************************************************)
(* Claims about the rate limiter.                                          *)
(***************************************************************************)

\* The calls made for a key, in the order they went through the lock.
KeyCalls(key) == SelectSeq(rl.log, LAMBDA c : c.key = key)

\* The first n calls for the key all fall within one span shorter than the
\* window.
WithinSpan(calls, n) ==
    \A a, b \in 1..n : calls[a].now - calls[b].now < rl.window

\* C15: from no recorded calls, of the calls for one key that fall within one
\* window-long span, the first max_calls are allowed and the next is
\* rejected.
C15_QuotaWithinWindow ==
    \A key \in LimiterKeys :
        \A n \in 1..Len(KeyCalls(key)) :
            WithinSpan(KeyCalls(key), n) =>
                /\ n <= rl.max_calls => KeyCalls(key)[n].allowed
                /\ n = rl.max_calls + 1 => ~KeyCalls(key)[n].allowed

\* C15 witness: a quota of two, three calls for one key in one span, the
\* third rejected.
C15_Witness ==
    /\ rl.max_calls = 2
    /\ \E key \in LimiterKeys :
          /\ Len(KeyCalls(key)) = 3
          /\ WithinSpan(KeyCalls(key), 3)
          /\ KeyCalls(key)[1].allowed /\ KeyCalls(key)[2].allowed
          /\ ~KeyCalls(key)[3].allowed

SeqMin(ts) == CHOOSE x \in {ts[i] : i \in 1..Len(ts)} :
                 \A i \in 1..Len(ts) : x <= ts[i]

\* The recorded calls that are not yet older than the window at a call.
StillCounting(c) ==
    {i \in 1..Len(c.before) : c.now - c.before[i] <= rl.window}

\* C16: a recorded call older than the window does not count: a call is
\* allowed whenever fewer than max_calls recorded calls are that recent, in
\* particular when the key was exhausted and its oldest recorded call has
\* become older than the window.
C16_ExpiredCallsDoNotCount ==
    \A n \in 1..Len(rl.log) :
        LET c == rl.log[n] IN
        /\ Cardinality(StillCounting(c)) < rl.max_calls => c.allowed
        /\ (/\ c.before # <<>>
            /\ Len(c.before) >= rl.max_calls
            /\ c.now - SeqMin(c.before) > rl.window) => c.allowed

\* C16 witness: a key is refused, and later, its oldest recorded call being
\* older than the window, allowed again.
C16_Witness ==
    \E m, n \in 1..Len(rl.log) :
        /\ m < n
        /\ rl.log[m].key = rl.log[n].key
        /\ ~rl.log[m].allowed
        /\ rl.log[n].allowed
        /\ rl.log[n].before # <<>>
        /\ Len(rl.log[n].before) >= rl.max_calls
        /\ rl.log[n].now - SeqMin(rl.log[n].before) > rl.window

(***************************************************************************)
(* Claims about the page cache.                                            *)
(***************************************************************************)

\* A lookup of the watched key made after the key had been stored.
LookedUpAfterSet == cache.lastGet.key = WatchedUrl /\ cache.lastGet.value # "none"

WatchedSearchAdmitted ==
    \E r \in SearchRepos, q \in SearchQueries :
        /\ IsWatched(r, q)
        /\ \/ SearchCacheHit(r, q)
           \/ \E a \in AnswersOf(r) : SearchAnswered(r, q, a)
           \/ SearchFailed(r, q)

WatchedSearchCall ==
    \/ WatchedSearchAdmitted
    \/ \E r \in SearchRepos, q \in SearchQueries :
          IsWatched(r, q) /\ SearchRateLimited(r, q)

\* A success for the watched pair lies less than the TTL back.
SuccessWithinTtl ==
    /\ sc.lastSuccess # NoSuccess
    /\ sc.now - sc.lastSuccess.time < sc.ttl

ServedFromCache ==
    /\ sc'.lastCall.code = "ok"
    /\ sc'.lastCall.answer = sc.lastSuccess.answer
    /\ sc'.lastCall.ops = 0

\* No call for another repository was ever served an answer of the watched
\* repository.
OtherRepoNeverServed == sc.otherGot \notin AnswersOf(WatchedRepo)

C17_RejectedCallDoesNothing ==
    (tc.pc = "done" /\ tc.limited) =>
        /\ tc.code = "RATE_LIMITED"
        /\ tc.fetches = 0
        /\ tc.chats = 0

\* C20: a fetched document with zero sections and empty raw text is given
\* NO_CONTENT by every document-reading tool, never a successful result,
\* whichever extraction strategy ran.
C20_EmptyDocumentIsNoContent ==
    (/\ tc.pc = "done"
     /\ tc.tool \in DocumentTools
     /\ tc.page # NoPage
     /\ tc.page.sections = 0
     /\ tc.page.raw_text = "") => tc.code = "NO_CONTENT"

(***************************************************************************)
(* Claims about section extraction.                                        *)
(***************************************************************************)

HasStructuredElement ==
    \E i \in 1..Len(pg.doc) :
        pg.doc[i] \in {"section-with-heading", "section-plain"}

\* C21: exactly one strategy produces the sections of a document: the
\* structured one alone if a structured content-block element exists, the
\* heading-delimited one alone otherwise; their outputs are never mixed.
C21_OneStrategyPerDocument ==
    pg.pc = "done" =>
        /\ pg.ran = IF HasStructuredElement THEN {"codewiki"} ELSE {"headings"}
        /\ \A i \in 1..Len(pg.sections) : pg.sections[i].by \in pg.ran
        /\ \A i, j \in 1..Len(pg.sections) :
               pg.sections[i].by = pg.sections[j].by

\* C21 witness: a document with a structured element and a heading outside
\* it was parsed, and the heading gave no section.
C21_Witness ==
    /\ pg.pc = "done"
    /\ pg.doc = <<"heading", "section-plain", "paragraph">>
    /\ pg.sections = <<[by |-> "codewiki", title |-> "Overview"]>>

(***************************************************************************)
(* Claims about truncation.                                                *)
(***************************************************************************)

\* C23: for every text and every positive budget, the truncated text is never
\* longer than the budget (truncate_response, page_to_markdown, chat
\* responses).
C23_NeverLongerThanBudget ==
    (tr.pc = "done" /\ tr.max_chars > 0) => Len(tr.result) <= tr.max_chars

\* What truncate_response kept of the text, before the marker.
KeptPrefix ==
    SubSeq(tr.result, 1, Len(tr.result) - Len(TruncationMarker))

\* A whitespace character of the text lies in the last 20% of the budget
\* (0-based index i with 0.8 * max_chars <= i < max_chars).
WhitespaceInLastFifth ==
    \E j \in 1..tr.max_chars :
        /\ 5 * (j - 1) >= 4 * tr.max_chars
        /\ IsWhitespace(tr.data[j])

\* C24: when truncate_response truncates, the cut falls at a whitespace
\* boundary whenever a whitespace character exists within the last 20% of the
\* budget, and the part before the marker is a true prefix of the text.
C24_CutAtWhitespace ==
    (tr.pc = "done" /\ tr.fn = "truncate_response" /\ tr.truncated) =>
        /\ StartsWith(tr.data, KeptPrefix)
        /\ WhitespaceInLastFifth => IsWhitespace(tr.data[Len(KeptPrefix) + 1])

(***************************************************************************)
(* Claims about read_wiki_contents.                                        *)
(***************************************************************************)

\* Section i is in the response: its heading line and its content.
SectionReturned(i) ==
    Contains(rc.data, <<"#", "#", " ", SectionTitles[i], "\n", "\n",
                        SectionContents[i]>>)

\* The response names offset=k as the place to continue.
HintNames(k) == Contains(rc.data, <<"o", "f", "f", "s", "e", "t", "=", Digits[k]>>)

\* C22: read_contents with an empty section_title, offset o and limit l over
\* a document with n sections returns exactly sections o..o+l-1 (0-based) and
\* none of the others, with a continuation hint naming offset=o+l exactly
\* when o+l < n.
C22_PageOfSections ==
    rc.pc = "done" =>
        /\ \A i \in 1..rc.total :
              SectionReturned(i) <=> (rc.offset < i /\ i <= rc.offset + rc.limit)
        /\ \A k \in 1..Len(Digits) :
              HintNames(k) <=>
                  (k = rc.offset + rc.limit /\ rc.offset + rc.limit < rc.total)

(***************************************************************************)
(* Claims about keyword recognition.                                       *)
(***************************************************************************)

\* The value starts with a URL scheme (http:// or https://).
StartsWithUrlScheme(v) ==
    \/ StartsWith(v, Http \o <<":", "/", "/">>)
    \/ StartsWith(v, Http \o <<"s", ":", "/", "/">>)

\* A bare keyword as the claim describes it.
BareKeywordAsStated(value) ==
    LET v == Strip(value) IN
    /\ v # <<>>
    /\ SlashAt(v) = {}
    /\ ~StartsWithUrlScheme(v)
    /\ AllNameChars(v, 1, Len(v))

\* C26: is_bare_keyword(v) is true iff v, trimmed, is non-empty, has no path
\* separator, does not start with a URL scheme, and consists only of word
\* characters, dots and hyphens.
C26_BareKeywordIff ==
    (inp.tool \in ResolvingTools /\ inp.pc # "resolve") =>
        (is_bare_keyword(inp.input) <=> BareKeywordAsStated(inp.input))

(***************************************************************************)
(* Claims about star-count parsing.                                        *)
(***************************************************************************)

\* The text is a number in the compact notation: a decimal numeral with an
\* optional k or M, spaces around the numeral and commas aside.
IsStarNotation(text) ==
    LET t == CleanStars(text) IN
    /\ t # <<>>
    /\ LET body == Strip(IF t[Len(t)] \in {"k", "m"}
                         THEN SubSeq(t, 1, Len(t) - 1) ELSE t)
       IN  /\ \E i \in 1..Len(body) : IsDigit(body[i])
           /\ \A i \in 1..Len(body) : IsDigit(body[i]) \/ body[i] = "."
           /\ Cardinality({i \in 1..Len(body) : body[i] = "."}) <= 1

\* C27: _parse_stars maps '209.9k' to 209900, '1.3M' to 1300000, plain digits
\* such as '52' to that integer, the empty string to 0, and every unparseable
\* string to 0 rather than raising.
C27_ParseStars ==
    st.pc = "done" =>
        /\ st.raised = "none"
        /\ st.text = <<"2", "0", "9", ".", "9", "k">> => st.result = 209900
        /\ st.text = <<"1", ".", "3", "M">> => st.result = 1300000
        /\ st.text = <<"5", "2">> => st.result = 52
        /\ st.text = <<>> => st.result = 0
        /\ ~IsStarNotation(st.text) => st.result = 0

(***************************************************************************)
(* Claims about shutdown cleanup.                                          *)
(***************************************************************************)

\* C28: cleanup_browser is idempotent and never raises: after any call that
\* came back both the browser handle and the driver handle are cleared, even
\* when a close raises, and the repeated call at shutdown (signal handler,
\* then main's finally) performs no close action and changes nothing.
C28_CleanupIdempotent ==
    /\ \A i \in CleanupCalls :
          (cl.after[i] # "none" /\ ~cl.timedOut[i]) => cl.after[i] = "None/None"
    /\ cl.signalled => cl.task[2].closes = 0

(***************************************************************************)
(* Claims about _ensure_loop.                                              *)
(***************************************************************************)

\* C29: for any interleaving of concurrent first calls of several caller
\* threads exactly one loop and one loop thread are created, and every later
\* call uses that loop for as long as it is not closed: a new loop is made
\* only after a close, each with its one thread, and every call returns the
\* loop current at its return.
C29_OneLoop ==
    /\ el.created <= el.closes + 1
    /\ el.threads <= el.created
    /\ el.created - el.threads <= 1
    /\ \A t \in EnsureCallers :
          /\ el.pc[t] \in {"release", "return"} => el.loop # 0
          /\ (el.got[t] # 0 /\ el.closes = 0) => el.got[t] = 1
          /\ el.got[t] <= el.loop

\* C29 witness: all three threads made their first call at once, two of them
\* are back with the one loop and the third is about to return it; one loop,
\* one thread.
C29_Witness ==
    /\ el.created = 1
    /\ el.threads = 1
    /\ el.closes = 0
    /\ el.got["t1"] = 1
    /\ el.got["t2"] = 1
    /\ el.pc["t3"] = "return"
    /\ \A t \in EnsureCallers : el.calls[t] = 1

(***************************************************************************)
(* Claims about the resolver's keyword caches.                             *)
(***************************************************************************)

\* A call for the watched keyword, in either letter case, made less than the
\* time-to-live after a search of the same source for it had completed.
RepeatedWithinTtl ==
    /\ kc.lastCall.source \in ResolveSources
    /\ kc.lastCall.value # "None"
    /\ kc.lastCall.age < kc.ttl

\* The call returned the list of the completed search and made neither a
\* browser operation nor a request.
SameListNoSearch ==
    /\ kc.lastCall.result = kc.lastCall.value
    /\ kc.lastCall.ops = 0
    /\ kc.lastCall.requests = 0

StagesWithoutFallback == {"validate", "fetch", "request"}

ChatRank(e) ==
    CASE e = "toggle" -> 0
      [] e = "type" -> 1
      [] e = "enter" -> 2
      [] e = "click" -> 3
      [] OTHER -> 4

ChatDid(e) == \E i \in 1..Len(ch.log) : ch.log[i] = e

\* C31: within one chat sequence the query is typed, submitted and the
\* response polled in that order and each only after the one before; nothing
\* is typed or submitted unless the panel was confirmed open and a visible
\* input was found, and when either check fails the sequence ends with
\* INPUT_NOT_FOUND having typed and submitted nothing.
C31_StepsInOrder ==
    /\ \A i, j \in 1..Len(ch.log) :
          i < j => ChatRank(ch.log[i]) < ChatRank(ch.log[j])
    /\ ChatDid("enter") => ChatDid("type")
    /\ (ChatDid("click") \/ ChatDid("poll")) => ChatDid("enter")
    /\ (ChatDid("type") \/ ChatDid("enter") \/ ChatDid("click")) =>
          ch.panel /\ ch.input > 0
    /\ (ch.pc = "done" /\ (~ch.panel \/ ch.input = 0)) =>
          /\ ch.res = "INPUT_NOT_FOUND"
          /\ ~ChatDid("type") /\ ~ChatDid("enter") /\ ~ChatDid("click")

\* C31 witness: the panel opened after the toggle was clicked, no selector
\* gave a visible input, and the sequence ended with INPUT_NOT_FOUND having
\* only clicked the toggle.
C31_Witness ==
    /\ ch.pc = "done"
    /\ ch.panel
    /\ ch.input = 0
    /\ ch.log = <<"toggle">>
    /\ ch.res = "INPUT_NOT_FOUND"

\* _submit_query has returned.
SubmitQueryReturned == ChatDid("enter") /\ ch.pc \in {"wait_for_response", "done"}

\* C32 as stated: _submit_query presses Enter exactly once and calls click
\* on a submit control at most once, and only when the first visible submit
\* control is still enabled after Enter; when that control is disabled no
\* click occurs.
C32_EnterThenOneClick ==
    SubmitQueryReturned =>
        /\ ch.enters = 1
        /\ ch.clickCalls <= 1
        /\ ch.clickCalls > 0 => ch.first.state = "visible-enabled"
        /\ ch.first.state = "visible-disabled" => ch.clickCalls = 0

\* C32 amended: Enter is pressed exactly once, at most one click succeeds,
\* and no click occurs when the first visible control is disabled; when no
\* probe and no click of a submit control raises, click is called at most
\* once and only on the first visible control, found enabled.
C32_EnterThenOneClickUnlessRaised ==
    SubmitQueryReturned =>
        /\ ch.enters = 1
        /\ ch.clicks <= 1
        /\ ch.first.state = "visible-disabled" => ch.clickCalls = 0
        /\ ~ch.raised =>
              /\ ch.clickCalls <= 1
              /\ ch.clickCalls > 0 =>
                    /\ ch.first.state = "visible-enabled"
                    /\ ch.clicked = ch.first.selector

\* C32 witness: the first selector's control was not visible, the second
\* one's was visible and enabled after Enter and was clicked, once.
C32_Witness ==
    /\ SubmitQueryReturned
    /\ ~ch.raised
    /\ ch.enters = 1
    /\ ch.first = [selector |-> 2, state |-> "visible-enabled"]
    /\ ch.clicks = 1
    /\ ch.clicked = 2

(***************************************************************************)
(* More claims about _wait_for_response.                                   *)
(***************************************************************************)

\* C33: when no visible text longer than the threshold was read before the
\* deadline, _wait_for_response returns the empty text, at the deadline, and
\* the caller turns it into NO_CONTENT; a text that is not empty is returned
\* only after such a text was read.
C33_EmptyWithoutText ==
    wait.pc = "ret" =>
        /\ ~wait.seen =>
              /\ wait.expired
              /\ wait.ret.len = 0
              /\ ResponseCode(wait.ret) = "NO_CONTENT"
        /\ wait.ret.len > 0 => wait.seen

\* C33 witness: the deadline passed with nothing longer than the threshold
\* read, and the empty text was returned.
C33_Witness ==
    /\ wait.pc = "ret"
    /\ wait.expired
    /\ ~wait.seen
    /\ wait.ret = EmptyText
    /\ ResponseCode(wait.ret) = "NO_CONTENT"

(***************************************************************************)
(* More claims about the rate limiter.                                     *)
(***************************************************************************)

\* The allowed calls for the key whose timestamps lie in the window-long
\* span that starts at the given time.
AdmittedFrom(key, start) ==
    {n \in 1..Len(rl.log) : /\ rl.log[n].key = key
                            /\ rl.log[n].allowed
                            /\ rl.log[n].now >= start
                            /\ rl.log[n].now < start + rl.window}

\* C34: whatever the interleaving of the calls of several threads for one
\* key, no window-long span holds more than max_calls allowed calls.
C34_AtMostQuotaPerWindow ==
    \A key \in LimiterKeys :
        \A n \in 1..Len(rl.log) :
            Cardinality(AdmittedFrom(key, rl.log[n].now)) <= rl.max_calls

\* C35: a call for a key is rejected only when max_calls earlier calls for
\* that same key were allowed, whatever was recorded for the other keys.
C35_PerKey ==
    \A n \in 1..Len(rl.log) :
        ~rl.log[n].allowed =>
            Cardinality({m \in 1..(n - 1) :
                            /\ rl.log[m].key = rl.log[n].key
                            /\ rl.log[m].allowed}) >= rl.max_calls

\* C35 witness: one key is exhausted and rejected, and a later call for the
\* other key is allowed.
C35_Witness ==
    /\ rl.max_calls > 0
    /\ \E m, n \in 1..Len(rl.log) :
          /\ m < n
          /\ rl.log[m].key = "repo-a" /\ ~rl.log[m].allowed
          /\ rl.log[n].key = "repo-b" /\ rl.log[n].allowed
          /\ rl.log[n].now - rl.log[m].now < rl.window
          /\ Len(rl.windows["repo-a"]) = rl.max_calls

C37_InvalidateAndClear ==
    /\ fl.invalidated # NoInvalidate =>
          /\ FlushLookup(fl.page, fl.invalidated.url, fl.now) = "None"
          /\ \A u \in FlushUrls \ {fl.invalidated.url} :
                fl.page[u] = fl.invalidated.page[u]
          /\ fl.parsed = fl.invalidated.parsed
          /\ fl.search = fl.invalidated.search
          /\ fl.invalidated.page[fl.invalidated.url] = NoEntry =>
                fl.page = fl.invalidated.page
    /\ fl.cleared =>
          /\ \A u \in FlushUrls : FlushLookup(fl.page, u, fl.now) = "None"
          /\ \A r \in FlushRepos : FlushLookup(fl.parsed, r, fl.now) = "None"
          /\ \A k \in FlushSearchKeys :
                FlushLookup(fl.search, k, fl.now) = "None"
          /\ fl.lastGet # NoFlushGet => fl.lastGet.result = "None"

\* C37 witness: all three caches held live entries, two of them in the page
\* cache, when one url was invalidated; the other page entry is still
\* served.
C37_Witness ==
    /\ fl.invalidated.url = "url-a"
    /\ Live(fl.invalidated.page["url-a"], fl.now)
    /\ FlushLookup(fl.page, "url-b", fl.now) = "html"
    /\ \A r \in FlushRepos : FlushLookup(fl.parsed, r, fl.now) = "page"
    /\ \A k \in FlushSearchKeys :
          FlushLookup(fl.search, k, fl.now) = "response"

(***************************************************************************)
(* Claims about the wait on the page of a reused session.                  *)
(***************************************************************************)

\* C39: on the page of a reused session the text returned for a query is
\* never the response of the earlier exchange.
C39_NeverEarlierResponse ==
    (ru.pc = "ret" /\ ru.reused) => ru.ret.of # "old"

\* On a fresh page the text returned, when there is one, is the new
\* response.
FreshReturnsNew ==
    (ru.pc = "ret" /\ ~ru.reused /\ ru.ret # NoThreadText) => ru.ret.of = "new"

(***************************************************************************)
(* Claims about paging through a document.                                 *)
(***************************************************************************)

\* C40: paging from offset 0 with one limit, each call at the offset the
\* last hint named, ends at a response without hint having carried every
\* section of the document once, in document order.
C40_EverySectionOnce ==
    pa.pc = "done" => pa.visited = [i \in 1..pa.total |-> i]

\* As long as no response is truncated the paging carries every section
\* once, in order.
PagingCompleteUnlessTruncated ==
    (pa.pc = "done" /\ ~pa.truncated) => pa.visited = [i \in 1..pa.total |-> i]

\* Four sections read two at a time in two calls, nothing truncated.
PagingTwoByTwo ==
    /\ pa.pc = "done"
    /\ pa.total = 4 /\ pa.limit = 2 /\ pa.calls = 2
    /\ pa.visited = <<1, 2, 3, 4>>

====
